---- MODULE Spec2Model ----
(***************************************************************************)
(* Tank game ("Tanchiki") of VanosikDeluxe_OfficeSaga.py, last revision    *)
(* (source lines 2033-3301): tile grid, tanks, bullets, enemy AI, spawner  *)
(* and the per-frame simulation loop.                                      *)
(* The office game of the same file (source lines 1-1258) follows at the   *)
(* end of the module.                                                      *)
(*                                                                         *)
(* Numbers.  The program computes positions and timers in floating point.  *)
(* Here a position is an integer number of 1/Px pixels and a time an       *)
(* integer number of 1/Sec seconds; every speed, delay and frame time used *)
(* is a whole number of these units, so sums, differences and comparisons  *)
(* are exact.  Rectangles are in whole pixels, as pygame.Rect.             *)
(***************************************************************************)
EXTENDS Integers, Sequences, FiniteSets, TLC

VARIABLES
    state,              \* Game.state: "menu", "playing", "game_over", "victory"
    stage,              \* Game.stage
    score,              \* Game.score
    level,              \* Game.level: [layout, popped, redefined, base_alive]
    player,             \* Game.player (PlayerTank)
    enemies,            \* Game.enemies: sequence of EnemyTank records
    bullets,            \* Game.bullets: sequence of Bullet records
    bonuses,            \* Game.bonuses: sequence of Bonus records
    remaining_enemies,  \* Game.remaining_enemies
    enemy_spawn_timer,  \* Game.enemy_spawn_timer
    game_over_reason,   \* Game.game_over_reason: "none" (None), "base", "player"
    detached,           \* destroyed EnemyTank objects a bullet's owner still refers to
    frame,              \* number of update() calls made so far
    office,             \* the office game's Game object (source lines 981-1226)
    log                 \* calls made by the last handler, in order (observation only)

vars == <<state, stage, score, level, player, enemies, bullets, bonuses,
          remaining_enemies, enemy_spawn_timer, game_over_reason, detached,
          frame, office, log>>

----------------------------------------------------------------------------
\* Units of the fixed-point representation.
Px == 160           \* position units per pixel
Sec == 3200         \* time units per second

\* ==== settings (source lines 2045-2064) ====
FPS == 60
TILE_SIZE == 24
GRID_SIZE == 26
PLAY_AREA_WIDTH == GRID_SIZE * TILE_SIZE
PLAY_AREA_HEIGHT == GRID_SIZE * TILE_SIZE
PLAYER_LIVES == 3
PLAYER_SPEED == 96 * Px
PLAYER_FIRE_DELAY == (35 * Sec) \div 100
PLAYER_BULLET_SPEED == 360 * Px
ENEMY_BASE_COUNT == 16
ENEMY_PER_STAGE == 4
MAX_TOTAL_ENEMIES == 40
MAX_ACTIVE_ENEMIES == 4
ENEMY_FIRE_DELAY == <<(11 * Sec) \div 10, (22 * Sec) \div 10>>
ENEMY_DIRECTION_DELAY == <<(14 * Sec) \div 10, 3 * Sec>>
ENEMY_RETRY_DELAY == <<(4 * Sec) \div 10, Sec>>

LEVEL_LAYOUT == <<
    <<".",".",".",".",".",".",".",".",".",".",".",".",".",".",".",".",".",".",".",".",".",".",".",".",".",".">>,
    <<".",".",".",".","#","#",".",".",".",".",".",".",".",".",".",".",".",".",".",".","#","#",".",".",".",".">>,
    <<".",".",".",".","#","#",".",".",".",".","W","W","W","W",".",".",".",".","#","#",".",".",".",".",".",".">>,
    <<".",".","#","#","#","#",".",".",".",".","W","W","W","W",".",".",".",".","#","#","#","#",".",".",".",".">>,
    <<".",".","#",".",".","#",".",".",".",".",".",".",".",".",".",".",".",".","#",".",".","#",".",".",".",".">>,
    <<".",".","#",".",".","#",".",".",".","F","F","F","F",".",".",".","#","#",".",".","#",".",".",".",".",".">>,
    <<".",".",".",".",".",".","S",".",".","F","F","F","F",".",".","S",".",".",".",".",".",".",".",".",".",".">>,
    <<".",".","#","#","#","#",".",".",".",".",".",".",".",".",".",".",".",".","#","#","#","#",".",".",".",".">>,
    <<".",".","#","#","#","#",".",".","#","#","#","#","#","#",".",".","#","#","#","#",".",".",".",".",".",".">>,
    <<".",".",".",".",".",".","#",".",".","W",".",".","W",".",".","#",".",".",".",".",".",".",".",".",".",".">>,
    <<".",".","S",".",".",".","#",".",".","W",".",".","W",".",".","#",".",".",".","S",".",".",".",".",".",".">>,
    <<".",".","S",".",".",".","#",".",".","W",".",".","W",".",".","#",".",".",".","S",".",".",".",".",".",".">>,
    <<".",".",".",".",".",".","#",".",".",".",".",".",".",".",".","#",".",".",".",".",".",".",".",".",".",".">>,
    <<".",".","#","#","#","#",".",".",".",".","S","S",".",".",".",".","#","#","#","#",".",".",".",".",".",".">>,
    <<".",".","#","#","#","#",".",".",".",".",".",".",".",".",".",".",".",".","#","#","#","#",".",".",".",".">>,
    <<".",".",".",".",".",".","#","#",".","F","F","F","F",".","#","#",".",".",".",".",".",".",".",".",".",".">>,
    <<".",".","S",".",".",".",".",".","F","F","F","F",".",".",".",".",".","S",".",".",".",".",".",".",".",".">>,
    <<".",".","S",".",".",".",".","#","#","#","#","#","#",".",".",".",".","S",".",".",".",".",".",".",".",".">>,
    <<".",".",".",".",".",".","#","#",".",".",".",".","#","#",".",".",".",".",".",".",".",".",".",".",".",".">>,
    <<".",".","#","#","#","#",".",".",".",".",".",".",".",".",".",".",".",".",".",".","#","#","#","#",".",".">>,
    <<".",".","#","#","#","#",".",".","#","#","#","#","#","#",".",".","#","#","#","#",".",".",".",".",".",".">>,
    <<".",".",".",".",".",".",".",".",".",".",".",".",".",".",".",".",".",".",".",".",".",".",".",".",".",".">>,
    <<".",".",".",".",".",".",".",".",".","#","#","#","#","#","#",".",".",".",".",".",".",".",".",".",".",".">>,
    <<".",".",".",".",".",".",".",".",".","#",".",".",".",".","#",".",".",".",".",".",".",".",".",".",".",".">>,
    <<".",".",".",".",".",".",".",".",".","#",".",".",".",".","#",".",".",".",".",".",".",".",".",".",".",".">>,
    <<".",".",".",".",".",".",".",".",".",".",".","B","B",".",".",".",".",".",".",".",".",".",".",".",".",".">>
>>

\* class Direction: the value of each member
Direction == {"UP", "RIGHT", "DOWN", "LEFT"}
vector(d) ==
    CASE d = "UP" -> [x |-> 0, y |-> -1]
      [] d = "RIGHT" -> [x |-> 1, y |-> 0]
      [] d = "DOWN" -> [x |-> 0, y |-> 1]
      [] d = "LEFT" -> [x |-> -1, y |-> 0]

TileType == {"brick", "steel", "water", "forest", "ice", "base", "base_ruin"}

TILE_DEFINITIONS ==
    [t \in TileType |->
        CASE t = "brick" -> [tile_type |-> t, passable |-> FALSE, bullet_block |-> TRUE, destructible |-> TRUE, overlay |-> FALSE]
          [] t = "steel" -> [tile_type |-> t, passable |-> FALSE, bullet_block |-> TRUE, destructible |-> FALSE, overlay |-> FALSE]
          [] t = "water" -> [tile_type |-> t, passable |-> FALSE, bullet_block |-> TRUE, destructible |-> FALSE, overlay |-> FALSE]
          [] t = "forest" -> [tile_type |-> t, passable |-> TRUE, bullet_block |-> FALSE, destructible |-> FALSE, overlay |-> TRUE]
          [] t = "ice" -> [tile_type |-> t, passable |-> TRUE, bullet_block |-> FALSE, destructible |-> FALSE, overlay |-> FALSE]
          [] t = "base" -> [tile_type |-> t, passable |-> FALSE, bullet_block |-> TRUE, destructible |-> FALSE, overlay |-> FALSE]
          [] t = "base_ruin" -> [tile_type |-> t, passable |-> FALSE, bullet_block |-> TRUE, destructible |-> FALSE, overlay |-> FALSE]]

\* CHAR_TO_TILE; "none" stands for None
CHAR_TO_TILE(ch) ==
    CASE ch = "#" -> "brick"
      [] ch = "S" -> "steel"
      [] ch = "W" -> "water"
      [] ch = "F" -> "forest"
      [] ch = "I" -> "ice"
      [] ch = "B" -> "base"
      [] OTHER -> "none"

----------------------------------------------------------------------------
\* ==== numbers ====
Max(a, b) == IF a >= b THEN a ELSE b
Min(a, b) == IF a <= b THEN a ELSE b

\* Python's round() of a position: to the nearest integer, a tie to the even one.
PyRound(v) ==
    LET q == v \div Px
        r == v % Px
    IN  IF 2 * r < Px THEN q
        ELSE IF 2 * r > Px THEN q + 1
        ELSE IF q % 2 = 0 THEN q ELSE q + 1

\* distance covered in dt at the given speed: speed * dt
Travel(speed, dt) == (speed * dt) \div Sec

\* ==== pygame.Rect ====
Rect(x, y, w, h) == [x |-> x, y |-> y, w |-> w, h |-> h]
Left(r) == r.x
Top(r) == r.y
Right(r) == r.x + r.w
Bottom(r) == r.y + r.h
Center(r) == [x |-> r.x + (r.w \div 2), y |-> r.y + (r.h \div 2)]
colliderect(a, b) ==
    /\ Left(a) < Right(b) /\ Right(a) > Left(b)
    /\ Top(a) < Bottom(b) /\ Bottom(a) > Top(b)
contains(a, b) ==
    /\ Left(a) <= Left(b) /\ Top(a) <= Top(b)
    /\ Right(a) >= Right(b) /\ Bottom(a) >= Bottom(b)
    /\ Right(a) > Left(b) /\ Bottom(a) > Top(b)

----------------------------------------------------------------------------
\* ==== class Level ====
\* A level is kept as its layout and what has happened to its tiles since it was
\* built: Level.tiles is the dictionary _build_tiles made, less the cells popped
\* from it, with the tiles whose definition was set again (set_definition).
\*   layout     the name of the layout the level was built from (Level.layout)
\*   popped     the cells removed from Level.tiles
\*   redefined  the cells of the tiles whose definition is now BASE_RUIN
\*   base_alive Level.base_alive

\* Level.__init__ raises ValueError unless the layout is GRID_SIZE x GRID_SIZE
\* (width is taken from the first row).
LayoutOk(layout) == Len(layout) = GRID_SIZE /\ Len(layout[1]) = GRID_SIZE

\* Level._build_tiles: cell (x, y) holds the tile of character layout[y+1][x+1]
BuildTiles(layout) ==
    LET cells == {c \in (0 .. GRID_SIZE - 1) \X (0 .. GRID_SIZE - 1) :
                    /\ c[2] + 1 <= Len(layout)
                    /\ c[1] + 1 <= Len(layout[c[2] + 1])
                    /\ CHAR_TO_TILE(layout[c[2] + 1][c[1] + 1]) # "none"}
    IN  [c \in cells |-> CHAR_TO_TILE(layout[c[2] + 1][c[1] + 1])]

LEVEL_TILES == BuildTiles(LEVEL_LAYOUT)
LEVEL_CELLS == DOMAIN LEVEL_TILES

\* the tiles _build_tiles makes of the named layout, and their cells
BuiltTiles(name) == LEVEL_TILES
BuiltCells(name) == LEVEL_CELLS

\* Level.__init__
NewLevel(name) ==
    [layout |-> name, popped |-> {}, redefined |-> {}, base_alive |-> TRUE]

\* Level.base_tiles
LEVEL_BASE == {c \in LEVEL_CELLS : LEVEL_TILES[c] = "base"}
base_tiles(lv) == LEVEL_BASE

\* (x, y) in Level.tiles
HasTile(lv, cell) == cell \in BuiltCells(lv.layout) /\ cell \notin lv.popped

\* Level.tiles[(x, y)].definition.tile_type
TileTypeAt(lv, cell) ==
    IF cell \in lv.redefined THEN "base_ruin" ELSE BuiltTiles(lv.layout)[cell]

pixel_width == GRID_SIZE * TILE_SIZE
pixel_height == GRID_SIZE * TILE_SIZE

\* Level.iter_tiles: the occupied cells the rectangle covers, row by row
\* (top row first), left to right within a row.
RECURSIVE CellScan(_, _, _, _, _, _)
CellScan(lv, gx, gy, left, right, bottom) ==
    IF gy > bottom THEN << >>
    ELSE IF gx > right THEN CellScan(lv, left, gy + 1, left, right, bottom)
    ELSE (IF HasTile(lv, <<gx, gy>>) THEN << <<gx, gy>> >> ELSE << >>)
         \o CellScan(lv, gx + 1, gy, left, right, bottom)

iter_tiles(lv, rect) ==
    LET left == Max(Left(rect) \div TILE_SIZE, 0)
        right == Min((Right(rect) - 1) \div TILE_SIZE, GRID_SIZE - 1)
        top == Max(Top(rect) \div TILE_SIZE, 0)
        bottom == Min((Bottom(rect) - 1) \div TILE_SIZE, GRID_SIZE - 1)
    IN  CellScan(lv, left, top, left, right, bottom)

\* is_rect_blocked without the test of the right and bottom edges
is_rect_blocked_far_edges_unseen(lv, rect) ==
    \/ Left(rect) < 0 \/ Top(rect) < 0
    \/ \E i \in DOMAIN iter_tiles(lv, rect) :
          ~TILE_DEFINITIONS[TileTypeAt(lv, iter_tiles(lv, rect)[i])].passable

\* the loop of Level.is_rect_blocked over the tiles iter_tiles yields
AnyImpassable(lv, cells) ==
    \E i \in DOMAIN cells : ~TILE_DEFINITIONS[TileTypeAt(lv, cells[i])].passable

is_rect_blocked(lv, rect) ==
    \/ Left(rect) < 0 \/ Top(rect) < 0
    \/ Right(rect) > pixel_width \/ Bottom(rect) > pixel_height
    \/ AnyImpassable(lv, iter_tiles(lv, rect))

\* handle_bullet_collision's loop body without the test of base_alive: a ruined
\* base tile is taken for the base again
BulletTile_ruin_is_base(lv, cell) ==
    LET definition == TILE_DEFINITIONS[TileTypeAt(lv, cell)]
    IN  IF definition.tile_type = "forest" THEN [ret |-> "skip", level |-> lv]
        ELSE IF definition.tile_type = "ice" THEN [ret |-> "skip", level |-> lv]
        ELSE IF ~definition.bullet_block THEN [ret |-> "skip", level |-> lv]
        ELSE IF definition.tile_type \in {"base", "base_ruin"}
        THEN [ret |-> "base",
              level |-> [lv EXCEPT !.base_alive = FALSE,
                                   !.redefined = @ \cup base_tiles(lv)]]
        ELSE IF definition.destructible
        THEN [ret |-> "brick",
              level |-> [lv EXCEPT !.popped = @ \cup {cell}]]
        ELSE [ret |-> "block", level |-> lv]

\* handle_bullet_collision's loop body without the set_definition of the base
\* tiles: the base is marked destroyed, its tiles stay BASE
BulletTile_ruin_not_set(lv, cell) ==
    LET definition == TILE_DEFINITIONS[TileTypeAt(lv, cell)]
    IN  IF definition.tile_type = "forest" THEN [ret |-> "skip", level |-> lv]
        ELSE IF definition.tile_type = "ice" THEN [ret |-> "skip", level |-> lv]
        ELSE IF ~definition.bullet_block THEN [ret |-> "skip", level |-> lv]
        ELSE IF definition.tile_type = "base" /\ lv.base_alive
        THEN [ret |-> "base", level |-> [lv EXCEPT !.base_alive = FALSE]]
        ELSE IF definition.destructible
        THEN [ret |-> "brick",
              level |-> [lv EXCEPT !.popped = @ \cup {cell}]]
        ELSE [ret |-> "block", level |-> lv]

\* handle_bullet_collision's loop body without the pop of a destructible tile:
\* the hit is reported, the brick stands
BulletTile_brick_stands(lv, cell) ==
    LET definition == TILE_DEFINITIONS[TileTypeAt(lv, cell)]
    IN  IF definition.tile_type = "forest" THEN [ret |-> "skip", level |-> lv]
        ELSE IF definition.tile_type = "ice" THEN [ret |-> "skip", level |-> lv]
        ELSE IF ~definition.bullet_block THEN [ret |-> "skip", level |-> lv]
        ELSE IF definition.tile_type = "base" /\ lv.base_alive
        THEN [ret |-> "base",
              level |-> [lv EXCEPT !.base_alive = FALSE,
                                   !.redefined = @ \cup base_tiles(lv)]]
        ELSE IF definition.destructible
        THEN [ret |-> "brick", level |-> lv]
        ELSE [ret |-> "block", level |-> lv]

\* handle_bullet_collision's loop body without the test of destructible: every
\* blocking tile but the live base breaks like a brick
BulletTile_all_break(lv, cell) ==
    LET definition == TILE_DEFINITIONS[TileTypeAt(lv, cell)]
    IN  IF definition.tile_type = "forest" THEN [ret |-> "skip", level |-> lv]
        ELSE IF definition.tile_type = "ice" THEN [ret |-> "skip", level |-> lv]
        ELSE IF ~definition.bullet_block THEN [ret |-> "skip", level |-> lv]
        ELSE IF definition.tile_type = "base" /\ lv.base_alive
        THEN [ret |-> "base",
              level |-> [lv EXCEPT !.base_alive = FALSE,
                                   !.redefined = @ \cup base_tiles(lv)]]
        ELSE [ret |-> "brick",
              level |-> [lv EXCEPT !.popped = @ \cup {cell}]]

\* The loop body of Level.handle_bullet_collision for one tile: "skip" when the
\* loop continues, else the level after the call and the value returned.
BulletTile(lv, cell) ==
    LET definition == TILE_DEFINITIONS[TileTypeAt(lv, cell)]
    IN  IF definition.tile_type = "forest" THEN [ret |-> "skip", level |-> lv]
        ELSE IF definition.tile_type = "ice" THEN [ret |-> "skip", level |-> lv]
        ELSE IF ~definition.bullet_block THEN [ret |-> "skip", level |-> lv]
        ELSE IF definition.tile_type = "base" /\ lv.base_alive
        THEN [ret |-> "base",
              level |-> [lv EXCEPT !.base_alive = FALSE,
                                   !.redefined = @ \cup base_tiles(lv)]]
        ELSE IF definition.destructible
        THEN [ret |-> "brick",
              level |-> [lv EXCEPT !.popped = @ \cup {cell}]]
        ELSE [ret |-> "block", level |-> lv]

\* the loop of handle_bullet_collision going on after a brick: every brick the
\* rectangle covers is removed
RECURSIVE BulletScan_every_tile(_, _, _)
BulletScan_every_tile(lv, cells, i) ==
    IF i > Len(cells) THEN [ret |-> "none", level |-> lv]
    ELSE LET r == BulletTile(lv, cells[i])
         IN  IF r.ret = "skip" THEN BulletScan_every_tile(lv, cells, i + 1)
             ELSE IF r.ret = "brick"
             THEN [ret |-> "brick", level |-> BulletScan_every_tile(r.level, cells, i + 1).level]
             ELSE r

RECURSIVE BulletScan(_, _, _)
BulletScan(lv, cells, i) ==
    IF i > Len(cells) THEN [ret |-> "none", level |-> lv]
    ELSE LET r == BulletTile(lv, cells[i])
         IN  IF r.ret = "skip" THEN BulletScan(lv, cells, i + 1) ELSE r

\* Level.handle_bullet_collision: [ret, level]; ret "none" stands for None
handle_bullet_collision(lv, rect) == BulletScan(lv, iter_tiles(lv, rect), 1)

----------------------------------------------------------------------------
\* ==== sequences ====
SeqRemoveAt(s, i) == [j \in 1 .. Len(s) - 1 |-> IF j < i THEN s[j] ELSE s[j + 1]]
IndexOfId(s, id) == IF \E i \in DOMAIN s : s[i].id = id
                    THEN CHOOSE i \in DOMAIN s : s[i].id = id /\ \A j \in 1 .. i - 1 : s[j].id # id
                    ELSE 0
Ids(s) == {s[i].id : i \in DOMAIN s}
\* The identity of a new object: the least positive number no live object has.
FreshId(used) == CHOOSE n \in 1 .. Cardinality(used) + 1 : n \notin used

\* One entry of the log: a call, the object it was about, and what it did.
Entry(op, id, owner, res, before, after) ==
    [op |-> op, id |-> id, owner |-> owner, res |-> res, before |-> before, after |-> after]

----------------------------------------------------------------------------
\* ==== class Bullet ====
BULLET_SIZE == 6

\* the rectangle of size w x h whose center is (cx, cy): rect.center = (cx, cy)
RectCentered(cx, cy, w, h) == Rect(cx - (w \div 2), cy - (h \div 2), w, h)

\* Bullet.__init__
NewBullet(id, position, direction, speed, owner, friendly) ==
    [id |-> id, position |-> position, direction |-> direction, speed |-> speed,
     owner |-> owner, friendly |-> friendly,
     rect |-> RectCentered(PyRound(position.x), PyRound(position.y), BULLET_SIZE, BULLET_SIZE)]

\* Bullet.update
BulletUpdate(b, dt) ==
    LET v == vector(b.direction)
        p == [x |-> b.position.x + v.x * Travel(b.speed, dt),
              y |-> b.position.y + v.y * Travel(b.speed, dt)]
    IN  [b EXCEPT !.position = p,
                  !.rect = RectCentered(PyRound(p.x), PyRound(p.y), BULLET_SIZE, BULLET_SIZE)]

----------------------------------------------------------------------------
\* ==== class Tank ====
\* The player's identity as a bullet's owner; enemies have positive identities.
PLAYER_ID == 0

\* Tank.update_timers
update_timers(t, dt) ==
    [t EXCEPT !.cooldown_timer = IF @ > 0 THEN Max(0, @ - dt) ELSE @,
              !.invulnerable_timer = IF @ > 0 THEN Max(0, @ - dt) ELSE @]

\* Tank._collides_with_others; others: sequence of [rect, active]
\* (active is getattr(other, "active", True)).
collides_with_others_nobody_seen(rect, others) == FALSE

\* Tank._collides_with_others
collides_with_others(rect, others) ==
    \E i \in DOMAIN others : others[i].active /\ colliderect(rect, others[i].rect)

\* One axis of Tank._try_axis_move: whether the candidate rectangle is free.
AxisFree(x, y, t, lv, others) ==
    LET test_rect == Rect(PyRound(x), PyRound(y), t.rect.w, t.rect.h)
    IN  ~is_rect_blocked(lv, test_rect) /\ ~collides_with_others(test_rect, others)

\* _try_axis_move testing the diagonal step as a whole: both axes move, or none
try_axis_move_whole(t, dx, dy, lv, others) ==
    LET ok == (dx # 0 \/ dy # 0) /\ AxisFree(t.pos.x + dx, t.pos.y + dy, t, lv, others)
        x1 == IF ok THEN t.pos.x + dx ELSE t.pos.x
        y1 == IF ok THEN t.pos.y + dy ELSE t.pos.y
    IN  [tank |-> [t EXCEPT !.pos = [x |-> x1, y |-> y1],
                            !.rect = Rect(PyRound(x1), PyRound(y1), t.rect.w, t.rect.h)],
         moved |-> ok]

\* Tank._try_axis_move: [tank, moved]
try_axis_move(t, dx, dy, lv, others) ==
    LET okx == dx # 0 /\ AxisFree(t.pos.x + dx, t.pos.y, t, lv, others)
        x1 == IF okx THEN t.pos.x + dx ELSE t.pos.x
        oky == dy # 0 /\ AxisFree(x1, t.pos.y + dy, t, lv, others)
        y1 == IF oky THEN t.pos.y + dy ELSE t.pos.y
    IN  [tank |-> [t EXCEPT !.pos = [x |-> x1, y |-> y1],
                            !.rect = Rect(PyRound(x1), PyRound(y1), t.rect.w, t.rect.h)],
         moved |-> okx \/ oky]

\* Tank.move: [tank, moved]
move(t, direction, dt, lv, others) ==
    LET v == vector(direction)
    IN  try_axis_move([t EXCEPT !.direction = direction],
                      v.x * Travel(t.speed, dt), v.y * Travel(t.speed, dt), lv, others)

\* can_fire without the test of the cooldown
can_fire_cooldown_unseen(t) == t.active_bullets < t.max_bullets

\* Tank.can_fire
can_fire(t) == t.cooldown_timer <= 0 /\ t.active_bullets < t.max_bullets

\* Tank.fire: [tank, bullet, fired]; fired FALSE stands for the result None
fire(t, bullet_id) ==
    IF ~can_fire(t) THEN [tank |-> t, fired |-> FALSE]
    ELSE LET c == Center(t.rect)
             v == vector(t.direction)
             reach == (t.rect.w * Px) \div 2 + (BULLET_SIZE * Px) \div 2
             muzzle == [x |-> c.x * Px + v.x * reach, y |-> c.y * Px + v.y * reach]
         IN  [tank |-> [t EXCEPT !.cooldown_timer = t.fire_delay,
                                 !.active_bullets = @ + 1],
              fired |-> TRUE,
              bullet |-> NewBullet(bullet_id, muzzle, t.direction, t.bullet_speed, t.id, t.friendly)]

\* Tank.on_bullet_destroyed
on_bullet_destroyed(t) ==
    IF t.active_bullets > 0 THEN [t EXCEPT !.active_bullets = @ - 1] ELSE t

\* take_damage with the test off by one: destroyed only below zero
take_damage_below_zero(t, amount) ==
    [tank |-> [t EXCEPT !.health = @ - amount], destroyed |-> t.health - amount < 0]

\* Tank.take_damage: [tank, destroyed]
take_damage(t, amount) ==
    [tank |-> [t EXCEPT !.health = @ - amount], destroyed |-> t.health - amount <= 0]

----------------------------------------------------------------------------
\* ==== class PlayerTank ====
BonusType == {"shield", "rapid_fire", "speed", "extra_life"}

\* PlayerTank.__init__ (x, y in pixels)
NewPlayerTank(x, y) ==
    [id |-> PLAYER_ID,
     pos |-> [x |-> x * Px, y |-> y * Px],
     rect |-> Rect(x, y, TILE_SIZE, TILE_SIZE),
     speed |-> PLAYER_SPEED, fire_delay |-> PLAYER_FIRE_DELAY,
     bullet_speed |-> PLAYER_BULLET_SPEED, friendly |-> TRUE,
     direction |-> "UP", cooldown_timer |-> 0, invulnerable_timer |-> 0,
     max_bullets |-> 1, active_bullets |-> 0, health |-> 1,
     spawn_point |-> [x |-> x, y |-> y],
     base_speed |-> PLAYER_SPEED, base_fire_delay |-> PLAYER_FIRE_DELAY,
     base_bullet_speed |-> PLAYER_BULLET_SPEED,
     rapid_fire_duration |-> 8 * Sec, speed_boost_duration |-> 6 * Sec,
     rapid_fire_timer |-> 0, speed_boost_timer |-> 0,
     lives |-> PLAYER_LIVES, active |-> TRUE, dead |-> FALSE,
     respawn_delay |-> (16 * Sec) \div 10, respawn_timer |-> 0]

\* PlayerTank.reset_modifiers
reset_modifiers(p) ==
    [p EXCEPT !.speed = p.base_speed, !.fire_delay = p.base_fire_delay,
              !.bullet_speed = p.base_bullet_speed, !.max_bullets = 1,
              !.rapid_fire_timer = 0, !.speed_boost_timer = 0]

\* the rapid-fire branch without the reset of bullet_speed
RapidFireTick_speed_kept(p, dt) ==
    IF p.rapid_fire_timer > 0
    THEN LET t == Max(0, p.rapid_fire_timer - dt)
         IN  IF t <= 0
             THEN [p EXCEPT !.rapid_fire_timer = t, !.fire_delay = p.base_fire_delay,
                            !.max_bullets = 1]
             ELSE [p EXCEPT !.rapid_fire_timer = t]
    ELSE p

\* the rapid-fire branch of PlayerTank.update_powerups
RapidFireTick(p, dt) ==
    IF p.rapid_fire_timer > 0
    THEN LET t == Max(0, p.rapid_fire_timer - dt)
         IN  IF t <= 0
             THEN [p EXCEPT !.rapid_fire_timer = t, !.fire_delay = p.base_fire_delay,
                            !.bullet_speed = p.base_bullet_speed, !.max_bullets = 1]
             ELSE [p EXCEPT !.rapid_fire_timer = t]
    ELSE p

\* the speed-boost branch of PlayerTank.update_powerups
SpeedBoostTick(p, dt) ==
    IF p.speed_boost_timer > 0
    THEN LET t == Max(0, p.speed_boost_timer - dt)
         IN  IF t <= 0
             THEN [p EXCEPT !.speed_boost_timer = t, !.speed = p.base_speed]
             ELSE [p EXCEPT !.speed_boost_timer = t]
    ELSE p

\* PlayerTank.update_powerups
update_powerups(p, dt) == SpeedBoostTick(RapidFireTick(p, dt), dt)

\* PlayerTank.apply_bonus
apply_bonus(p, bonus_type) ==
    CASE bonus_type = "shield" ->
            [p EXCEPT !.invulnerable_timer = Max(@, 8 * Sec)]
      [] bonus_type = "rapid_fire" ->
            [p EXCEPT !.rapid_fire_timer = p.rapid_fire_duration,
                      !.fire_delay = Max((18 * Sec) \div 100, (p.base_fire_delay * 55) \div 100),
                      !.bullet_speed = (p.base_bullet_speed * 135) \div 100,
                      !.max_bullets = 2]
      [] bonus_type = "speed" ->
            [p EXCEPT !.speed_boost_timer = p.speed_boost_duration,
                      !.speed = (p.base_speed * 13) \div 10]
      [] bonus_type = "extra_life" ->
            [p EXCEPT !.lives = @ + 1]
      [] OTHER -> p

\* PlayerTank.reset_position (x, y in pixels)
reset_position(p, x, y) ==
    [reset_modifiers([p EXCEPT !.spawn_point = [x |-> x, y |-> y],
                               !.pos = [x |-> x * Px, y |-> y * Px],
                               !.rect = Rect(x, y, p.rect.w, p.rect.h),
                               !.direction = "UP", !.cooldown_timer = 0,
                               !.invulnerable_timer = 2 * Sec, !.active_bullets = 0])
        EXCEPT !.active = TRUE, !.dead = FALSE, !.respawn_timer = 0]

\* start_respawn without the call of reset_modifiers
start_respawn_modifiers_kept(p) ==
    [p EXCEPT !.dead = TRUE, !.active = FALSE,
              !.respawn_timer = p.respawn_delay,
              !.invulnerable_timer = 0]

\* PlayerTank.start_respawn
start_respawn(p) ==
    reset_modifiers([p EXCEPT !.dead = TRUE, !.active = FALSE,
                              !.respawn_timer = p.respawn_delay,
                              !.invulnerable_timer = 0])

\* update_respawn without the loop over the enemies
update_respawn_enemies_unseen(p, dt, lv, enemy_rects) ==
    IF ~p.dead THEN p
    ELSE LET t == Max(0, p.respawn_timer - dt)
             spawn_rect == Rect(p.spawn_point.x, p.spawn_point.y, p.rect.w, p.rect.h)
         IN  IF t > 0 THEN [p EXCEPT !.respawn_timer = t]
             ELSE IF is_rect_blocked(lv, spawn_rect)
             THEN [p EXCEPT !.respawn_timer = (25 * Sec) \div 100]
             ELSE [p EXCEPT !.respawn_timer = t,
                            !.pos = [x |-> p.spawn_point.x * Px, y |-> p.spawn_point.y * Px],
                            !.rect = Rect(p.spawn_point.x, p.spawn_point.y, p.rect.w, p.rect.h),
                            !.direction = "UP", !.dead = FALSE, !.active = TRUE,
                            !.invulnerable_timer = (25 * Sec) \div 10,
                            !.cooldown_timer = 0, !.active_bullets = 0]

\* PlayerTank.update_respawn; enemy_rects: the rectangles of the enemies
update_respawn(p, dt, lv, enemy_rects) ==
    IF ~p.dead THEN p
    ELSE LET t == Max(0, p.respawn_timer - dt)
             spawn_rect == Rect(p.spawn_point.x, p.spawn_point.y, p.rect.w, p.rect.h)
         IN  IF t > 0 THEN [p EXCEPT !.respawn_timer = t]
             ELSE IF is_rect_blocked(lv, spawn_rect)
             THEN [p EXCEPT !.respawn_timer = (25 * Sec) \div 100]
             ELSE IF \E i \in DOMAIN enemy_rects : colliderect(spawn_rect, enemy_rects[i])
             THEN [p EXCEPT !.respawn_timer = (25 * Sec) \div 100]
             ELSE [p EXCEPT !.respawn_timer = t,
                            !.pos = [x |-> p.spawn_point.x * Px, y |-> p.spawn_point.y * Px],
                            !.rect = Rect(p.spawn_point.x, p.spawn_point.y, p.rect.w, p.rect.h),
                            !.direction = "UP", !.dead = FALSE, !.active = TRUE,
                            !.invulnerable_timer = (25 * Sec) \div 10,
                            !.cooldown_timer = 0, !.active_bullets = 0]

----------------------------------------------------------------------------
\* ==== class EnemyTank ====
Variants == <<"basic", "fast", "heavy">>
SCORE_VALUES(variant) ==
    CASE variant = "basic" -> 100 [] variant = "fast" -> 150 [] variant = "heavy" -> 300

\* EnemyTank.__init__; change_dir and fire_t are the two random.uniform draws
NewEnemyTank(id, x, y, variant, change_dir, fire_t) ==
    [id |-> id,
     pos |-> [x |-> x * Px, y |-> y * Px],
     rect |-> Rect(x, y, TILE_SIZE, TILE_SIZE),
     speed |-> CASE variant = "fast" -> 112 * Px [] variant = "heavy" -> 72 * Px [] OTHER -> 84 * Px,
     fire_delay |-> CASE variant = "fast" -> (42 * Sec) \div 100
                      [] variant = "heavy" -> (65 * Sec) \div 100
                      [] OTHER -> (55 * Sec) \div 100,
     bullet_speed |-> CASE variant = "fast" -> 320 * Px [] variant = "heavy" -> 300 * Px
                        [] OTHER -> 280 * Px,
     friendly |-> FALSE, direction |-> "UP", cooldown_timer |-> 0,
     invulnerable_timer |-> Sec, max_bullets |-> 1, active_bullets |-> 0,
     health |-> IF variant = "heavy" THEN 2 ELSE 1,
     variant |-> variant, change_dir_timer |-> change_dir, fire_timer |-> fire_t,
     score_value |-> SCORE_VALUES(variant)]

----------------------------------------------------------------------------
\* ==== class Bonus ====
BONUS_SIZE == TILE_SIZE - 6

\* Bonus.__init__ (position in pixels)
NewBonus(id, bonus_type, x, y) ==
    [id |-> id, type |-> bonus_type,
     rect |-> RectCentered(x, y, BONUS_SIZE, BONUS_SIZE), timer |-> 14 * Sec]

----------------------------------------------------------------------------
\* ==== class Game ====
\* The game as one record, so that the methods below are functions of it.
GameRec ==
    [state |-> state, stage |-> stage, score |-> score, level |-> level,
     player |-> player, enemies |-> enemies, bullets |-> bullets,
     bonuses |-> bonuses, remaining_enemies |-> remaining_enemies,
     enemy_spawn_timer |-> enemy_spawn_timer,
     game_over_reason |-> game_over_reason, detached |-> detached, log |-> log]

SetGame(g) ==
    /\ state' = g.state
    /\ stage' = g.stage
    /\ score' = g.score
    /\ level' = g.level
    /\ player' = g.player
    /\ enemies' = g.enemies
    /\ bullets' = g.bullets
    /\ bonuses' = g.bonuses
    /\ remaining_enemies' = g.remaining_enemies
    /\ enemy_spawn_timer' = g.enemy_spawn_timer
    /\ game_over_reason' = g.game_over_reason
    /\ detached' = g.detached
    /\ log' = g.log
    /\ office' = office

PLAYER_SPAWN == [x |-> TILE_SIZE * 12, y |-> TILE_SIZE * 23]
InitialLevel == NewLevel("LEVEL_LAYOUT")

Logged(G, e) == [G EXCEPT !.log = Append(@, e)]

\* Game.__init__
NewGame ==
    [state |-> "menu", stage |-> 1, score |-> 0, level |-> InitialLevel,
     player |-> [NewPlayerTank(PLAYER_SPAWN.x, PLAYER_SPAWN.y) EXCEPT !.active = FALSE],
     enemies |-> << >>, bullets |-> << >>, bonuses |-> << >>,
     remaining_enemies |-> 0, enemy_spawn_timer |-> 0,
     game_over_reason |-> "none", detached |-> << >>, log |-> << >>]

\* the stage's count without the cap at MAX_TOTAL_ENEMIES
SeededEnemies_uncapped(n) == ENEMY_BASE_COUNT + (n - 1) * ENEMY_PER_STAGE

\* the number of enemies Game.prepare_stage seeds the stage with
SeededEnemies(n) == Min(ENEMY_BASE_COUNT + (n - 1) * ENEMY_PER_STAGE, MAX_TOTAL_ENEMIES)

\* The identity of the next EnemyTank object: its number in the stage's order of spawning.
NextEnemyId(G) == SeededEnemies(G.stage) - G.remaining_enemies + 1

\* prepare_stage leaving game_over_reason as the last game set it
prepare_stage_reason_kept(G, reset_lives) ==
    LET p1 == IF reset_lives THEN [G.player EXCEPT !.lives = PLAYER_LIVES] ELSE G.player
        p2 == reset_position(p1, PLAYER_SPAWN.x, PLAYER_SPAWN.y)
    IN  [G EXCEPT !.level = InitialLevel,
                  !.enemies = << >>, !.bullets = << >>, !.bonuses = << >>,
                  !.detached = << >>,
                  !.remaining_enemies = SeededEnemies(G.stage),
                  !.enemy_spawn_timer = 2 * Sec,
                  !.player = [p2 EXCEPT !.invulnerable_timer = (25 * Sec) \div 10],
                  !.state = "playing"]

\* Game.prepare_stage
prepare_stage(G, reset_lives) ==
    LET p1 == IF reset_lives THEN [G.player EXCEPT !.lives = PLAYER_LIVES] ELSE G.player
        p2 == reset_position(p1, PLAYER_SPAWN.x, PLAYER_SPAWN.y)
    IN  [G EXCEPT !.level = InitialLevel,
                  !.enemies = << >>, !.bullets = << >>, !.bonuses = << >>,
                  !.detached = << >>,
                  !.remaining_enemies = SeededEnemies(G.stage),
                  !.enemy_spawn_timer = 2 * Sec,
                  !.player = [p2 EXCEPT !.invulnerable_timer = (25 * Sec) \div 10],
                  !.state = "playing",
                  !.game_over_reason = "none"]

\* start_new_game without the new PlayerTank and without reset_lives: the
\* player of the game before is kept, with the lives it had
start_new_game_player_kept(G) ==
    prepare_stage([G EXCEPT !.stage = 1, !.score = 0,
                            !.bonuses = << >>, !.bullets = << >>], FALSE)

\* Game.start_new_game
start_new_game(G) ==
    prepare_stage([G EXCEPT !.stage = 1, !.score = 0,
                            !.player = NewPlayerTank(PLAYER_SPAWN.x, PLAYER_SPAWN.y),
                            !.bonuses = << >>, !.bullets = << >>], TRUE)

\* the candidate cells of Game.spawn_enemy, before the shuffle
SPAWN_POINTS == << [x |-> TILE_SIZE, y |-> TILE_SIZE],
                   [x |-> TILE_SIZE * 12, y |-> TILE_SIZE],
                   [x |-> TILE_SIZE * 23, y |-> TILE_SIZE] >>
Shuffles == {q \in [1 .. 3 -> 1 .. 3] : \A i, j \in 1 .. 3 : i # j => q[i] # q[j]}

\* the test of a candidate cell without the loop over the enemies
SpawnFree_enemies_unseen(G, spawn) ==
    LET rect == Rect(spawn.x, spawn.y, TILE_SIZE, TILE_SIZE)
    IN  /\ ~is_rect_blocked(G.level, rect)
        /\ ~(G.player.active /\ colliderect(rect, G.player.rect))

\* whether a candidate cell of Game.spawn_enemy is free
SpawnFree(G, spawn) ==
    LET rect == Rect(spawn.x, spawn.y, TILE_SIZE, TILE_SIZE)
    IN  /\ ~is_rect_blocked(G.level, rect)
        /\ ~(G.player.active /\ colliderect(rect, G.player.rect))
        /\ \A i \in DOMAIN G.enemies : ~colliderect(rect, G.enemies[i].rect)


\* spawn_enemy without the test of the number of live enemies
spawn_enemy_crowd_unseen(G, R) ==
    IF G.remaining_enemies <= 0
    THEN {[game |-> Logged(G, Entry("spawn_enemy", 0, 0, "none_left", G.remaining_enemies, G.remaining_enemies)),
           spawned |-> FALSE]}
    ELSE UNION {
        LET free == {i \in 1 .. 3 : SpawnFree(G, SPAWN_POINTS[q[i]])}
        IN  IF free = {}
            THEN {[game |-> Logged(G, Entry("spawn_enemy", 0, 0, "blocked", G.remaining_enemies, G.remaining_enemies)),
                   spawned |-> FALSE]}
            ELSE LET first == CHOOSE i \in free : \A j \in free : i <= j
                     spawn == SPAWN_POINTS[q[first]]
                     id == NextEnemyId(G)
                 IN  {[game |-> Logged([G EXCEPT !.enemies = Append(@, NewEnemyTank(id, spawn.x, spawn.y, variant, cd, ft)),
                                                !.remaining_enemies = @ - 1],
                                       Entry("spawn_enemy", id, 0, "spawned", G.remaining_enemies, G.remaining_enemies - 1)),
                       spawned |-> TRUE]
                      : variant \in R.variants, cd \in R.dir_delay, ft \in R.fire_delay}
        : q \in R.shuffles}

\* Game.spawn_enemy: the possible outcomes [game, spawned], one per draw of
\* the shuffle, the variant and the new enemy's two timers.
spawn_enemy(G, R) ==
    IF G.remaining_enemies <= 0
    THEN {[game |-> Logged(G, Entry("spawn_enemy", 0, 0, "none_left", G.remaining_enemies, G.remaining_enemies)),
           spawned |-> FALSE]}
    ELSE IF Len(G.enemies) >= MAX_ACTIVE_ENEMIES
    THEN {[game |-> Logged(G, Entry("spawn_enemy", 0, 0, "full", G.remaining_enemies, G.remaining_enemies)),
           spawned |-> FALSE]}
    ELSE UNION {
        LET free == {i \in 1 .. 3 : SpawnFree(G, SPAWN_POINTS[q[i]])}
        IN  IF free = {}
            THEN {[game |-> Logged(G, Entry("spawn_enemy", 0, 0, "blocked", G.remaining_enemies, G.remaining_enemies)),
                   spawned |-> FALSE]}
            ELSE LET first == CHOOSE i \in free : \A j \in free : i <= j
                     spawn == SPAWN_POINTS[q[first]]
                     id == NextEnemyId(G)
                 IN  {[game |-> Logged([G EXCEPT !.enemies = Append(@, NewEnemyTank(id, spawn.x, spawn.y, variant, cd, ft)),
                                                !.remaining_enemies = @ - 1],
                                       Entry("spawn_enemy", id, 0, "spawned", G.remaining_enemies, G.remaining_enemies - 1)),
                       spawned |-> TRUE]
                      : variant \in R.variants, cd \in R.dir_delay, ft \in R.fire_delay}
        : q \in R.shuffles}

\* handle_events with the victory branch starting a new game
handle_events_confirm_victory_restarts(G) ==
    IF G.state = "menu" THEN start_new_game(G)
    ELSE IF G.state = "game_over" THEN start_new_game(G)
    ELSE IF G.state = "victory" THEN start_new_game(G)
    ELSE G

\* Game.handle_events for one KEYDOWN of RETURN or SPACE
handle_events_confirm(G) ==
    IF G.state = "menu" THEN start_new_game(G)
    ELSE IF G.state = "game_over" THEN start_new_game(G)
    ELSE IF G.state = "victory" THEN prepare_stage([G EXCEPT !.stage = @ + 1], FALSE)
    ELSE G

\* the direction Game.handle_player_input reads from the pressed keys
KeyDirection(keys) ==
    IF "UP" \in keys THEN "UP"
    ELSE IF "DOWN" \in keys THEN "DOWN"
    ELSE IF "LEFT" \in keys THEN "LEFT"
    ELSE IF "RIGHT" \in keys THEN "RIGHT"
    ELSE "NONE"

EnemyOthers(G) == [i \in DOMAIN G.enemies |-> [rect |-> G.enemies[i].rect, active |-> TRUE]]

\* Game.handle_player_input
handle_player_input(G, dt, keys) ==
    LET direction == KeyDirection(keys)
        p1 == IF direction # "NONE"
              THEN move(G.player, direction, dt, G.level, EnemyOthers(G)).tank
              ELSE G.player
        f == fire(p1, FreshId(Ids(G.bullets)))
    IN  IF "SPACE" \in keys /\ f.fired
        THEN Logged([G EXCEPT !.player = f.tank, !.bullets = Append(@, f.bullet)],
                    Entry("fire", f.bullet.id, PLAYER_ID, "shoot", G.player.active_bullets, f.tank.active_bullets))
        ELSE [G EXCEPT !.player = p1]

\* ==== EnemyTank.update_ai, as Game.update calls it ====
\* the tanks an enemy moves against: every other enemy, and the player if active
TargetList(G, id) ==
    LET es == SelectSeq(G.enemies, LAMBDA e : e.id # id)
    IN  [i \in DOMAIN es |-> [rect |-> es[i].rect, active |-> TRUE]]
        \o (IF G.player.active THEN << [rect |-> G.player.rect, active |-> TRUE] >> ELSE << >>)

\* update_ai up to the move with the timer re-armed from ENEMY_DIRECTION_DELAY
\* after a failed move too
AiMove_retry_normal(e0, dt, lv, targets, R) ==
    LET e1 == update_timers(e0, dt)
        cd == e1.change_dir_timer - dt
        turned == IF cd <= 0
                  THEN {[e1 EXCEPT !.direction = d, !.change_dir_timer = t] :
                            d \in R.dirs, t \in R.dir_delay}
                  ELSE {[e1 EXCEPT !.change_dir_timer = cd]}
    IN  UNION { LET m == move(e, e.direction, dt, lv, targets)
                IN  IF m.moved THEN {m.tank}
                    ELSE {[m.tank EXCEPT !.direction = d, !.change_dir_timer = t] :
                              d \in R.dirs, t \in R.dir_delay}
                : e \in turned }

\* EnemyTank.update_ai up to the move: the enemy after each possible draw
AiMove(e0, dt, lv, targets, R) ==
    LET e1 == update_timers(e0, dt)
        cd == e1.change_dir_timer - dt
        turned == IF cd <= 0
                  THEN {[e1 EXCEPT !.direction = d, !.change_dir_timer = t] :
                            d \in R.dirs, t \in R.dir_delay}
                  ELSE {[e1 EXCEPT !.change_dir_timer = cd]}
    IN  UNION { LET m == move(e, e.direction, dt, lv, targets)
                IN  IF m.moved THEN {m.tank}
                    ELSE {[m.tank EXCEPT !.direction = d, !.change_dir_timer = t] :
                              d \in R.dirs, t \in R.retry_delay}
                : e \in turned }

\* the rest of EnemyTank.update_ai: the fire timer and the shot; [tank, fired, bullet]
AiFire(e, dt, bullet_id, R) ==
    LET ft == e.fire_timer - dt
    IN  IF ft <= 0
        THEN {fire([e EXCEPT !.fire_timer = t], bullet_id) : t \in R.fire_delay}
        ELSE {[tank |-> [e EXCEPT !.fire_timer = ft], fired |-> FALSE]}

\* one pass of the enemy loop of Game.update: update_ai of enemy id, and the
\* bullet it returns appended to the pool
update_ai(G, id, dt, R) ==
    LET i == IndexOfId(G.enemies, id)
        bid == FreshId(Ids(G.bullets))
    IN  UNION { { IF f.fired
                  THEN Logged([G EXCEPT !.enemies[i] = f.tank, !.bullets = Append(@, f.bullet)],
                              Entry("fire", f.bullet.id, id, "shoot_enemy",
                                    G.enemies[i].active_bullets, f.tank.active_bullets))
                  ELSE [G EXCEPT !.enemies[i] = f.tank]
                  : f \in AiFire(e, dt, bid, R) }
                : e \in AiMove(G.enemies[i], dt, G.level, TargetList(G, id), R) }

RECURSIVE AiLoop(_, _, _, _, _)
AiLoop(G, ids, k, dt, R) ==
    IF k > Len(ids) THEN {G}
    ELSE UNION { AiLoop(g, ids, k + 1, dt, R) : g \in update_ai(G, ids[k], dt, R) }

----------------------------------------------------------------------------
\* ==== Game.update_bullets ====
OwnerCount(G, owner) ==
    IF owner = PLAYER_ID THEN G.player.active_bullets
    ELSE IF IndexOfId(G.enemies, owner) # 0 THEN G.enemies[IndexOfId(G.enemies, owner)].active_bullets
    ELSE IF IndexOfId(G.detached, owner) # 0 THEN G.detached[IndexOfId(G.detached, owner)].active_bullets
    ELSE 0

\* bullet.owner.on_bullet_destroyed()
OwnerNotified(G, owner) ==
    IF owner = PLAYER_ID THEN [G EXCEPT !.player = on_bullet_destroyed(@)]
    ELSE IF IndexOfId(G.enemies, owner) # 0
    THEN [G EXCEPT !.enemies[IndexOfId(G.enemies, owner)] = on_bullet_destroyed(@)]
    ELSE IF IndexOfId(G.detached, owner) # 0
    THEN [G EXCEPT !.detached[IndexOfId(G.detached, owner)] = on_bullet_destroyed(@)]
    ELSE G

\* Game.remove_bullet; why names the call site (for the log only)
remove_bullet(G, id, why) ==
    LET i == IndexOfId(G.bullets, id)
    IN  IF i = 0 THEN G
        ELSE LET owner == G.bullets[i].owner
                 G1 == OwnerNotified([G EXCEPT !.bullets = SeqRemoveAt(@, i)], owner)
             IN  Logged(G1, Entry("remove_bullet", id, owner, why,
                                  OwnerCount(G, owner), OwnerCount(G1, owner)))

\* on_player_hit without the test of the lives left: every hit starts a respawn
on_player_hit_respawn_always(G) ==
    IF G.player.invulnerable_timer > 0 \/ ~G.player.active
    THEN Logged(G, Entry("on_player_hit", 0, 0, "ignored", G.player.lives, G.player.lives))
    ELSE Logged([G EXCEPT !.player = start_respawn([@ EXCEPT !.lives = @ - 1])],
                Entry("on_player_hit", 0, 0, "respawn", G.player.lives, G.player.lives - 1))

\* on_player_hit without the floor of 0 under the lives
on_player_hit_floor_dropped(G) ==
    IF G.player.invulnerable_timer > 0 \/ ~G.player.active
    THEN Logged(G, Entry("on_player_hit", 0, 0, "ignored", G.player.lives, G.player.lives))
    ELSE IF G.player.lives - 1 <= 0
    THEN Logged([G EXCEPT !.player.lives = @ - 1, !.state = "game_over",
                          !.game_over_reason = "player"],
                Entry("on_player_hit", 0, 0, "game_over", G.player.lives, G.player.lives - 1))
    ELSE Logged([G EXCEPT !.player = start_respawn([@ EXCEPT !.lives = @ - 1])],
                Entry("on_player_hit", 0, 0, "respawn", G.player.lives, G.player.lives - 1))

\* Game.on_player_hit
on_player_hit(G) ==
    IF G.player.invulnerable_timer > 0 \/ ~G.player.active
    THEN Logged(G, Entry("on_player_hit", 0, 0, "ignored", G.player.lives, G.player.lives))
    ELSE IF G.player.lives - 1 <= 0
    THEN Logged([G EXCEPT !.player.lives = 0, !.state = "game_over",
                          !.game_over_reason = "player"],
                Entry("on_player_hit", 0, 0, "game_over", G.player.lives, 0))
    ELSE Logged([G EXCEPT !.player = start_respawn([@ EXCEPT !.lives = @ - 1])],
                Entry("on_player_hit", 0, 0, "respawn", G.player.lives, G.player.lives - 1))

\* Game.try_spawn_bonus (position in pixels): one outcome per draw
try_spawn_bonus(G, position, R) ==
    IF Len(G.bonuses) >= 3 THEN {G}
    ELSE UNION { IF ~roll THEN {G}
                 ELSE LET spawn_x == Max(BONUS_SIZE \div 2, Min(PLAY_AREA_WIDTH - BONUS_SIZE \div 2, position.x))
                          spawn_y == Max(BONUS_SIZE \div 2, Min(PLAY_AREA_HEIGHT - BONUS_SIZE \div 2, position.y))
                      IN  {[G EXCEPT !.bonuses = Append(@, NewBonus(FreshId(Ids(G.bonuses)), t, spawn_x, spawn_y))]
                           : t \in R.bonus_types}
                 : roll \in R.bonus_roll }

\* the search for the enemy hit without the test of invulnerable_timer
TargetHit_shield_unseen(G, b) ==
    LET hit == {i \in DOMAIN G.enemies : colliderect(b.rect, G.enemies[i].rect)}
    IN  IF hit = {} THEN 0 ELSE CHOOSE i \in hit : \A j \in hit : i <= j

\* the friendly branch of the per-bullet pass: the first vulnerable enemy hit
TargetHit(G, b) ==
    LET hit == {i \in DOMAIN G.enemies :
                   G.enemies[i].invulnerable_timer <= 0 /\ colliderect(b.rect, G.enemies[i].rect)}
    IN  IF hit = {} THEN 0 ELSE CHOOSE i \in hit : \A j \in hit : i <= j

\* the friendly branch leaving a destroyed enemy in Game.enemies
FriendlyHit_wreck_kept(G, b, R) ==
    LET i == TargetHit(G, b)
    IN  IF i = 0 THEN {G}
        ELSE LET target == G.enemies[i]
                 d == take_damage(target, 1)
             IN  IF d.destroyed
                 THEN LET G1 == Logged([G EXCEPT !.enemies[i] = d.tank,
                                                 !.score = @ + target.score_value],
                                       Entry("take_damage", target.id, 0, "destroyed", target.health, d.tank.health))
                      IN  {remove_bullet(g, b.id, "tank") : g \in try_spawn_bonus(G1, Center(target.rect), R)}
                 ELSE {remove_bullet(Logged([G EXCEPT !.enemies[i] = d.tank],
                                            Entry("take_damage", target.id, 0, "survived", target.health, d.tank.health)),
                                     b.id, "tank")}

\* Game.update_bullets, the branch of a friendly bullet
FriendlyHit(G, b, R) ==
    LET i == TargetHit(G, b)
    IN  IF i = 0 THEN {G}
        ELSE LET target == G.enemies[i]
                 d == take_damage(target, 1)
             IN  IF d.destroyed
                 THEN LET G1 == Logged([G EXCEPT !.enemies = SeqRemoveAt(@, i),
                                                 !.detached = Append(@, d.tank),
                                                 !.score = @ + target.score_value],
                                       Entry("take_damage", target.id, 0, "destroyed", target.health, d.tank.health))
                      IN  {remove_bullet(g, b.id, "tank") : g \in try_spawn_bonus(G1, Center(target.rect), R)}
                 ELSE {remove_bullet(Logged([G EXCEPT !.enemies[i] = d.tank],
                                            Entry("take_damage", target.id, 0, "survived", target.health, d.tank.health)),
                                     b.id, "tank")}

EnemyHit(G, b) ==
    IF G.player.active /\ G.player.invulnerable_timer <= 0 /\ colliderect(b.rect, G.player.rect)
    THEN on_player_hit(remove_bullet(G, b.id, "tank"))
    ELSE G

\* the tile branch of the per-bullet pass, given the collision found
TileHit(G, b, col) ==
    LET G1 == remove_bullet(Logged([G EXCEPT !.level = col.level],
                                   Entry("handle_bullet_collision", b.id, b.owner, col.ret, 0, 0)),
                            b.id, "tile")
    IN  IF col.ret = "base" /\ G1.state = "playing"
        THEN [G1 EXCEPT !.state = "game_over", !.game_over_reason = "base"]
        ELSE G1

\* the body of the loop with the tanks looked at before the tiles
BulletStep_tanks_first(G, id, dt, R) ==
    LET i == IndexOfId(G.bullets, id)
        b == BulletUpdate(G.bullets[i], dt)
        G1 == [G EXCEPT !.bullets[i] = b]
        play_rect == Rect(0, 0, PLAY_AREA_WIDTH, PLAY_AREA_HEIGHT)
        col == handle_bullet_collision(G1.level, b.rect)
    IN  IF ~contains(play_rect, b.rect) THEN {remove_bullet(G1, id, "bounds")}
        ELSE IF b.friendly /\ TargetHit(G1, b) # 0 THEN FriendlyHit(G1, b, R)
        ELSE IF ~b.friendly /\ G1.player.active /\ G1.player.invulnerable_timer <= 0
                /\ colliderect(b.rect, G1.player.rect) THEN {EnemyHit(G1, b)}
        ELSE IF col.ret # "none" THEN {TileHit(G1, b, col)}
        ELSE {G1}

\* the body of the first loop of Game.update_bullets for the bullet id
BulletStep(G, id, dt, R) ==
    LET i == IndexOfId(G.bullets, id)
        b == BulletUpdate(G.bullets[i], dt)
        G1 == [G EXCEPT !.bullets[i] = b]
        play_rect == Rect(0, 0, PLAY_AREA_WIDTH, PLAY_AREA_HEIGHT)
        col == handle_bullet_collision(G1.level, b.rect)
    IN  IF ~contains(play_rect, b.rect) THEN {remove_bullet(G1, id, "bounds")}
        ELSE IF col.ret # "none" THEN {TileHit(G1, b, col)}
        ELSE IF b.friendly THEN FriendlyHit(G1, b, R)
        ELSE {EnemyHit(G1, b)}

RECURSIVE BulletLoop(_, _, _, _, _)
BulletLoop(G, ids, k, dt, R) ==
    IF k > Len(ids) THEN {G}
    ELSE UNION { BulletLoop(g, ids, k + 1, dt, R) : g \in BulletStep(G, ids[k], dt, R) }

\* the pairwise scan: to_remove after the pairs (i, j), (i, j+1), ... and the later rows
RECURSIVE PairScan(_, _, _, _)
PairScan(bs, i, j, to_remove) ==
    IF i > Len(bs) THEN to_remove
    ELSE IF j > Len(bs) THEN PairScan(bs, i + 1, i + 2, to_remove)
    ELSE IF bs[i].friendly = bs[j].friendly THEN PairScan(bs, i, j + 1, to_remove)
    ELSE IF colliderect(bs[i].rect, bs[j].rect)
    THEN LET r1 == IF \E k \in DOMAIN to_remove : to_remove[k] = bs[i].id
                   THEN to_remove ELSE Append(to_remove, bs[i].id)
             r2 == IF \E k \in DOMAIN r1 : r1[k] = bs[j].id THEN r1 ELSE Append(r1, bs[j].id)
         IN  PairScan(bs, i, j + 1, r2)
    ELSE PairScan(bs, i, j + 1, to_remove)

RECURSIVE RemoveAll(_, _, _)
RemoveAll(G, ids, k) ==
    IF k > Len(ids) THEN G ELSE RemoveAll(remove_bullet(G, ids[k], "pair"), ids, k + 1)

\* destroyed enemies no bullet refers to any more are gone
Collected(G) ==
    [G EXCEPT !.detached = SelectSeq(@, LAMBDA t : \E i \in DOMAIN G.bullets : G.bullets[i].owner = t.id)]

\* update_bullets with the pairwise pass run first, on the bullets as they
\* stood before the frame's move
update_bullets_pairs_first(G, dt, R) ==
    LET G1 == RemoveAll(G, PairScan(G.bullets, 1, 2, << >>), 1)
    IN  { Collected(g)
          : g \in BulletLoop(G1, [i \in DOMAIN G1.bullets |-> G1.bullets[i].id], 1, dt, R) }

\* Game.update_bullets
update_bullets(G, dt, R) ==
    { Collected(RemoveAll(g, PairScan(g.bullets, 1, 2, << >>), 1))
      : g \in BulletLoop(G, [i \in DOMAIN G.bullets |-> G.bullets[i].id], 1, dt, R) }

----------------------------------------------------------------------------
\* ==== Game.update_bonuses ====
RECURSIVE BonusLoop(_, _, _, _)
BonusLoop(G, ids, k, dt) ==
    IF k > Len(ids) THEN G
    ELSE LET i == IndexOfId(G.bonuses, ids[k])
             bonus == [G.bonuses[i] EXCEPT !.timer = @ - dt]
             G1 == [G EXCEPT !.bonuses[i] = bonus]
         IN  IF bonus.timer <= 0
             THEN BonusLoop([G1 EXCEPT !.bonuses = SeqRemoveAt(@, i)], ids, k + 1, dt)
             ELSE IF G1.player.active /\ colliderect(G1.player.rect, bonus.rect)
             THEN BonusLoop(Logged([G1 EXCEPT !.player = apply_bonus(@, bonus.type),
                                              !.bonuses = SeqRemoveAt(@, i)],
                                   Entry("apply_bonus", bonus.id, 0, bonus.type, 0, 0)),
                            ids, k + 1, dt)
             ELSE BonusLoop(G1, ids, k + 1, dt)

update_bonuses(G, dt) == BonusLoop(G, [i \in DOMAIN G.bonuses |-> G.bonuses[i].id], 1, dt)

----------------------------------------------------------------------------
\* ==== Game.update ====
\* the player's part of the frame with handle_player_input called whether the
\* player is dead or not
PlayerPart_dead_steered(G, dt, keys) ==
    LET p == update_powerups(update_timers(G.player, dt), dt)
        G1 == [G EXCEPT !.player = p]
    IN  IF p.dead
        THEN LET q == update_respawn(p, dt, G.level, [i \in DOMAIN G.enemies |-> G.enemies[i].rect])
             IN  IF q.dead = p.dead THEN handle_player_input([G1 EXCEPT !.player = q], dt, keys)
                 ELSE handle_player_input(
                          Logged([G1 EXCEPT !.player = q],
                                 Entry("update_respawn", 0, 0, "respawned", p.active_bullets, q.active_bullets)),
                          dt, keys)
        ELSE handle_player_input(G1, dt, keys)

\* the player's part of the frame
PlayerPart(G, dt, keys) ==
    LET p == update_powerups(update_timers(G.player, dt), dt)
        G1 == [G EXCEPT !.player = p]
    IN  IF p.dead
        THEN LET q == update_respawn(p, dt, G.level, [i \in DOMAIN G.enemies |-> G.enemies[i].rect])
             IN  IF q.dead = p.dead THEN [G1 EXCEPT !.player = q]
                 ELSE Logged([G1 EXCEPT !.player = q],
                             Entry("update_respawn", 0, 0, "respawned", p.active_bullets, q.active_bullets))
        ELSE handle_player_input(G1, dt, keys)

\* the spawner's part of the frame with the timer re-armed to 1.5 whatever
\* spawn_enemy returned
SpawnerPart_same_delay(G, dt, R) ==
    IF G.remaining_enemies > 0
    THEN IF G.enemy_spawn_timer - dt <= 0
         THEN { [r.game EXCEPT !.enemy_spawn_timer = (15 * Sec) \div 10]
                : r \in spawn_enemy(G, R) }
         ELSE {[G EXCEPT !.enemy_spawn_timer = @ - dt]}
    ELSE {G}

\* the spawner's part of the frame
SpawnerPart(G, dt, R) ==
    IF G.remaining_enemies > 0
    THEN IF G.enemy_spawn_timer - dt <= 0
         THEN { [r.game EXCEPT !.enemy_spawn_timer = IF r.spawned THEN (15 * Sec) \div 10 ELSE (5 * Sec) \div 10]
                : r \in spawn_enemy(G, R) }
         ELSE {[G EXCEPT !.enemy_spawn_timer = @ - dt]}
    ELSE {G}

\* the terminal conditions with the victory test not asking for the state
TerminalPart_victory_unguarded(G) ==
    LET G1 == IF ~G.level.base_alive /\ G.state = "playing"
              THEN [G EXCEPT !.state = "game_over", !.game_over_reason = "base"]
              ELSE G
    IN  IF G1.remaining_enemies = 0 /\ G1.enemies = << >>
        THEN [G1 EXCEPT !.state = "victory"]
        ELSE G1

\* the terminal conditions at the end of the frame
TerminalPart(G) ==
    LET G1 == IF ~G.level.base_alive /\ G.state = "playing"
              THEN [G EXCEPT !.state = "game_over", !.game_over_reason = "base"]
              ELSE G
    IN  IF G1.remaining_enemies = 0 /\ G1.enemies = << >> /\ G1.state = "playing"
        THEN [G1 EXCEPT !.state = "victory"]
        ELSE G1

\* update without the test of the state: the frame is simulated in the menu
\* and after the end of the stage too
update_state_unseen(G, dt, keys, R) ==
    LET G0 == [G EXCEPT !.log = << >>]
        G1 == PlayerPart(G0, dt, keys)
        S2 == AiLoop(G1, [i \in DOMAIN G1.enemies |-> G1.enemies[i].id], 1, dt, R)
        S3 == UNION { update_bullets(g, dt, R) : g \in S2 }
        S4 == { update_bonuses(g, dt) : g \in S3 }
        S5 == UNION { SpawnerPart(g, dt, R) : g \in S4 }
    IN  { TerminalPart(g) : g \in S5 }

\* Game.update: the possible games after the frame, one per draw
update(G, dt, keys, R) ==
    LET G0 == [G EXCEPT !.log = << >>]
    IN  IF G.state # "playing" THEN {G0}
        ELSE LET G1 == PlayerPart(G0, dt, keys)
                 S2 == AiLoop(G1, [i \in DOMAIN G1.enemies |-> G1.enemies[i].id], 1, dt, R)
                 S3 == UNION { update_bullets(g, dt, R) : g \in S2 }
                 S4 == { update_bonuses(g, dt) : g \in S3 }
                 S5 == UNION { SpawnerPart(g, dt, R) : g \in S4 }
             IN  { TerminalPart(g) : g \in S5 }

----------------------------------------------------------------------------
\* ==== the program as a state machine ====
\* Game.run: each pass of the loop takes the time since the last pass,
\* handles the pending events and calls update.  A pass with no event pending
\* is an Update step; a confirm key is a HandleEvents step.

MaxFrames == 7      \* update() calls explored from the start of the program

\* The draws of the random module, as the sets a draw is taken from.
AllDraws ==
    [dirs |-> Direction,
     dir_delay |-> {ENEMY_DIRECTION_DELAY[1], ENEMY_DIRECTION_DELAY[2]},
     retry_delay |-> {ENEMY_RETRY_DELAY[1], ENEMY_RETRY_DELAY[2]},
     fire_delay |-> {ENEMY_FIRE_DELAY[1], ENEMY_FIRE_DELAY[2]},
     shuffles |-> Shuffles,
     variants |-> {"basic", "fast", "heavy"},
     bonus_roll |-> BOOLEAN,
     bonus_types |-> BonusType]

\* Frame times: a quarter of a second (speeds and delays are whole units of it).
FrameTimes == {Sec \div 4}
\* The keys held during a frame.
KeySets == {{}, {"UP"}, {"DOWN"}, {"LEFT"}, {"RIGHT"}, {"SPACE"}, {"UP", "SPACE"}}

\* the office game's Game object while the tank game runs: none is in use
NotStarted == [state |-> "none"]

\* the tank game's variables hold the Game object g
TanksAt(g) ==
    /\ state = g.state
    /\ stage = g.stage
    /\ score = g.score
    /\ level = g.level
    /\ player = g.player
    /\ enemies = g.enemies
    /\ bullets = g.bullets
    /\ bonuses = g.bonuses
    /\ remaining_enemies = g.remaining_enemies
    /\ enemy_spawn_timer = g.enemy_spawn_timer
    /\ game_over_reason = g.game_over_reason
    /\ detached = g.detached
    /\ log = g.log
    /\ frame = 0

InitGame(g) == TanksAt(g) /\ office = NotStarted

Init == InitGame(NewGame)

\* handle_events with one confirm key pending
HandleEvents ==
    /\ SetGame(Logged(handle_events_confirm([GameRec EXCEPT !.log = << >>]),
                      Entry("handle_events", 0, 0, state, 0, 0)))
    /\ UNCHANGED frame

\* update(dt) with the given keys held and the draws taken from R
UpdateWith(dts, keysets, R, maxFrames) ==
    /\ frame < maxFrames
    /\ \E dt \in dts, keys \in keysets :
         \E g \in update(GameRec, dt, keys, R) : SetGame(g)
    /\ frame' = frame + 1

Update == UpdateWith(FrameTimes, KeySets, AllDraws, MaxFrames)

Next == HandleEvents \/ Update

Spec == Init /\ [][Next]_vars

----------------------------------------------------------------------------
\* ==== stages in progress ====
\* The game after the confirm key in the menu: stage 1 just prepared.
InPlay == start_new_game(NewGame)

\* An enemy some time after its spawn, its spawn invulnerability over.
EnemyAt(id, x, y, variant, direction, change_dir, fire_t) ==
    [NewEnemyTank(id, x, y, variant, change_dir, fire_t)
        EXCEPT !.direction = direction, !.invulnerable_timer = 0]

\* The player some time after its spawn, at (x, y), its grace period over.
PlayerAt(p, x, y, direction, lives) ==
    [p EXCEPT !.pos = [x |-> x * Px, y |-> y * Px],
              !.rect = Rect(x, y, TILE_SIZE, TILE_SIZE),
              !.direction = direction, !.invulnerable_timer = 0, !.lives = lives]

----------------------------------------------------------------------------
\* ==== the base under fire ====
\* Stage 1, two enemies out, all three tanks inside the fortress (entered by
\* the open bottom row).  The player stands over the left base tile facing
\* down; one enemy stands beside it over the right base tile, also facing
\* down; the other stands on the player's other side, facing it.  Both
\* enemies are about to fire.
SiegeFrames == 2

SiegeScene(lives) ==
    [InPlay EXCEPT
        !.player = PlayerAt(@, TILE_SIZE * 11, TILE_SIZE * 23, "DOWN", lives),
        !.enemies = << EnemyAt(1, TILE_SIZE * 12, TILE_SIZE * 23, "basic", "DOWN", Sec, Sec \div 32),
                       EnemyAt(2, TILE_SIZE * 10, TILE_SIZE * 23, "basic", "RIGHT", 2 * Sec, Sec \div 32) >>,
        !.remaining_enemies = @ - 2,
        !.enemy_spawn_timer = (15 * Sec) \div 10]

SiegeTimes == {Sec \div 16}
SiegeKeys == {{}, {"SPACE"}, {"LEFT"}}

InitSiege == \E lives \in 1 .. 2 : InitGame(SiegeScene(lives))

UpdateSiege == UpdateWith(SiegeTimes, SiegeKeys, AllDraws, SiegeFrames)

NextSiege == HandleEvents \/ UpdateSiege

SpecSiege == InitSiege /\ [][NextSiege]_vars

\* the entries of the last handler's log for the named call
Calls(op) == {i \in DOMAIN log : log[i].op = op}

\* C2: whenever the base has been destroyed and the game is over, the reason
\* recorded is "base", whatever the player's lives and whatever player hit was
\* resolved in the frame of the base hit.
C2_BaseLossReason ==
    (~level.base_alive /\ state = "game_over") => game_over_reason = "base"

\* C3: a hit on the active, vulnerable player with exactly one life left
\* leaves lives at 0 and the game over with reason "player", and the player
\* is not sent to the dead (respawning) state.
C3_FatalHit ==
    \A i \in Calls("on_player_hit") :
        (log[i].res # "ignored" /\ log[i].before = 1) =>
            /\ player.lives = 0
            /\ state = "game_over"
            /\ game_over_reason = "player"
            /\ ~player.dead

C3_FatalHitSeen ==
    \E i \in Calls("on_player_hit") : log[i].res # "ignored" /\ log[i].before = 1

----------------------------------------------------------------------------
\* ==== bullets against the fortress ====
\* Level.handle_bullet_collision and the tile branch of Game.update_bullets,
\* applied to a bullet at each of a set of places about the fortress and the
\* base: over the middle of a cell, and across the border of two cells.
ShotColumns == 5    \* columns 9 .. 13 of the fortress are shot at

ShotCentres ==
    {[x |-> TILE_SIZE * c + TILE_SIZE \div 2, y |-> y] :
        c \in 9 .. 8 + ShotColumns,
        y \in {TILE_SIZE * 22 + 12, TILE_SIZE * 23 + 12, TILE_SIZE * 25 + 12, TILE_SIZE * 25}}
    \cup {[x |-> TILE_SIZE * 12, y |-> TILE_SIZE * 25 + 12],
          [x |-> TILE_SIZE * 11, y |-> TILE_SIZE * 25 + 12]}

\* a bullet of no tank in the pool, at the given place
ShotAt(c) ==
    NewBullet(1, [x |-> c.x * Px, y |-> c.y * Px], "DOWN", PLAYER_BULLET_SPEED, PLAYER_ID, TRUE)

\* the tile branch of update_bullets for the bullet b
ShotResolved(G, b) ==
    LET col == handle_bullet_collision(G.level, b.rect)
    IN  IF col.ret # "none" THEN TileHit(G, b, col) ELSE G

Shot ==
    /\ \E c \in ShotCentres :
          SetGame(ShotResolved(Logged([GameRec EXCEPT !.log = << >>],
                                      Entry("shot", 1, PLAYER_ID, "at", c.x, c.y)),
                               ShotAt(c)))
    /\ UNCHANGED frame

InitLevel == InitGame(InPlay)

NextLevel == HandleEvents \/ Shot

SpecLevel == InitLevel /\ [][NextLevel]_vars

\* the rectangle lies on base cells: it covers tiles, and only tiles of the base
OnBase(lv, rect) ==
    LET cells == iter_tiles(lv, rect)
    IN  cells # << >> /\ \A i \in DOMAIN cells : cells[i] \in base_tiles(lv)

\* C7: once the base is destroyed, a further bullet collision on a base cell
\* leaves the level as it is (base_alive false, the tiles unchanged), does not
\* return "base" again, and changes neither the game state nor the reason.
C7_RuinedBaseIdempotent ==
    ~level.base_alive =>
        \A c \in ShotCentres :
            OnBase(level, ShotAt(c).rect) =>
                LET col == handle_bullet_collision(level, ShotAt(c).rect)
                    G == ShotResolved(GameRec, ShotAt(c))
                IN  /\ col.level = level
                    /\ col.ret = "block"
                    /\ G.level = level
                    /\ ~G.level.base_alive
                    /\ G.state = state
                    /\ G.game_over_reason = game_over_reason

\* a bullet has hit the ruined base
C7_RuinHit ==
    /\ ~level.base_alive
    /\ \E i \in Calls("shot"), j \in Calls("handle_bullet_collision") :
          /\ OnBase(level, ShotAt([x |-> log[i].before, y |-> log[i].after]).rect)
          /\ log[j].res = "block"

\* every tile of the base is in place and is BASE_RUIN
BaseRuined(lv) ==
    \A c \in base_tiles(lv) : HasTile(lv, c) /\ TileTypeAt(lv, c) = "base_ruin"

\* C8: within a stage a destroyed base stays destroyed and its tiles stay
\* BASE_RUIN; base_alive becomes true again only when handle_events has
\* prepare_stage build a new Level.
C8_BaseNeverRebuilt ==
    [][ /\ ~level.base_alive => BaseRuined(level)
        /\ (~level.base_alive /\ level'.base_alive) =>
              /\ \E i \in DOMAIN log' : log'[i].op = "handle_events"
              /\ level' = NewLevel(level.layout)
        /\ (~level.base_alive /\ \A i \in DOMAIN log' : log'[i].op # "handle_events") =>
              ~level'.base_alive /\ BaseRuined(level') ]_vars

\* the base lies in ruins, a frame after the one that destroyed it
C8_RuinKept ==
    ~level.base_alive /\ BaseRuined(level) /\ state = "game_over" /\ log = << >> /\ frame > 0

----------------------------------------------------------------------------
\* ==== the spawn cells occupied ====
\* Stage 1 some time in: enemies that wandered back stand on some of the three
\* spawn cells (half a cell above them, heading down), or the player stands on
\* the middle one; the spawn timer is about to expire.
SpawnFrames == 2

\* the enemies standing on the cells of occ (the middle one only if mid = "enemy")
RECURSIVE Occupants(_, _, _)
Occupants(occ, mid, k) ==
    IF k > 3 THEN << >>
    ELSE IF k \in occ /\ (k # 2 \/ mid = "enemy")
    THEN << [x |-> SPAWN_POINTS[k].x, y |-> SPAWN_POINTS[k].y - TILE_SIZE \div 2] >>
         \o Occupants(occ, mid, k + 1)
    ELSE Occupants(occ, mid, k + 1)

SpawnScene(occ, mid) ==
    LET at == Occupants(occ, mid, 1)
    IN  [InPlay EXCEPT
            !.player = IF 2 \in occ /\ mid = "player"
                       THEN PlayerAt(@, SPAWN_POINTS[2].x, SPAWN_POINTS[2].y, "UP", PLAYER_LIVES)
                       ELSE PlayerAt(@, PLAYER_SPAWN.x, PLAYER_SPAWN.y, "UP", PLAYER_LIVES),
            !.enemies = [i \in DOMAIN at |->
                            EnemyAt(i, at[i].x, at[i].y, "basic", "DOWN", Sec, ENEMY_FIRE_DELAY[1])],
            !.remaining_enemies = @ - Len(at),
            !.enemy_spawn_timer = Sec \div 16]

SpawnTimes == {Sec \div 16}
SpawnKeys == {{}, {"LEFT"}}

InitSpawn == \E occ \in SUBSET (1 .. 3), mid \in {"enemy", "player"} : InitGame(SpawnScene(occ, mid))

UpdateSpawn == UpdateWith(SpawnTimes, SpawnKeys, AllDraws, SpawnFrames)

NextSpawn == HandleEvents \/ UpdateSpawn

SpecSpawn == InitSpawn /\ [][NextSpawn]_vars

\* the candidate cell k is blocked by terrain, or the active player or a live
\* enemy stands on it
CellTaken(G, k) ==
    LET cell == Rect(SPAWN_POINTS[k].x, SPAWN_POINTS[k].y, TILE_SIZE, TILE_SIZE)
    IN  \/ is_rect_blocked(G.level, cell)
        \/ G.player.active /\ colliderect(cell, G.player.rect)
        \/ \E i \in DOMAIN G.enemies : colliderect(cell, G.enemies[i].rect)

AllCellsTaken(G) == \A k \in 1 .. 3 : CellTaken(G, k)

\* C9: a spawn_enemy attempt with every one of the three candidate cells
\* blocked or occupied returns false, leaves remaining_enemies as it was and
\* adds no enemy, whatever the shuffle.
C9_NoSpawnWhenTaken ==
    AllCellsTaken(GameRec) =>
        \A r \in spawn_enemy(GameRec, AllDraws) :
            /\ ~r.spawned
            /\ r.game.remaining_enemies = remaining_enemies
            /\ r.game.enemies = enemies

\* the frame's spawn attempt found all three cells taken, with enemies left
\* to spawn and room for one
C9_AttemptFailed ==
    /\ AllCellsTaken(GameRec)
    /\ remaining_enemies > 0 /\ Len(enemies) < MAX_ACTIVE_ENEMIES
    /\ \E i \in Calls("spawn_enemy") : log[i].res = "blocked" /\ log[i].after = remaining_enemies

----------------------------------------------------------------------------
\* ==== the player shooting at one enemy ====
\* Stage 1, one enemy out of each variant in turn: in the open row above the
\* fortress the enemy drives away from the player, which stands two cells
\* behind it and faces it.
DuelFrames == 8

DuelScene(variant) ==
    [InPlay EXCEPT
        !.player = PlayerAt(@, TILE_SIZE * 5, TILE_SIZE * 21, "RIGHT", PLAYER_LIVES),
        !.enemies = << EnemyAt(1, TILE_SIZE * 7, TILE_SIZE * 21, variant, "RIGHT",
                               ENEMY_DIRECTION_DELAY[1], ENEMY_FIRE_DELAY[1]) >>,
        !.remaining_enemies = @ - 1,
        !.enemy_spawn_timer = (15 * Sec) \div 10]

DuelTimes == {Sec \div 16}
DuelKeys == {{}, {"SPACE"}, {"RIGHT"}}

InitDuel == \E variant \in {"basic", "fast", "heavy"} : InitGame(DuelScene(variant))

UpdateDuel == UpdateWith(DuelTimes, DuelKeys, AllDraws, DuelFrames)

NextDuel == HandleEvents \/ UpdateDuel

SpecDuel == InitDuel /\ [][NextDuel]_vars

\* the hits the log records on the tank id
Hits(lg, id) == Cardinality({i \in DOMAIN lg : lg[i].op = "take_damage" /\ lg[i].id = id})

\* the score values of the tanks of es[k ..] that are not among the live ones
RECURSIVE ValueRemoved(_, _, _)
ValueRemoved(es, live, k) ==
    IF k > Len(es) THEN 0
    ELSE (IF es[k].id \in live THEN 0 ELSE es[k].score_value) + ValueRemoved(es, live, k + 1)

\* C6: a friendly bullet's hit leaves an enemy in the live list while it has
\* health left (a heavy one after its first hit) and removes it when its health
\* is used up (a basic or fast one on the first hit, a heavy one on the
\* second); the score grows by the value of the enemies removed, and by nothing
\* for a hit that removes none.
C6_HitsToDestroy ==
    [][ (\E i \in DOMAIN log' : log'[i].op = "take_damage") =>
          /\ \A k \in DOMAIN enemies :
                LET e == enemies[k]
                    n == Hits(log', e.id)
                    j == IndexOfId(enemies', e.id)
                IN  /\ e.health = (IF e.variant = "heavy" THEN 2 ELSE 1) \/ e.health = 1
                    /\ n < e.health => j # 0 /\ enemies'[j].health = e.health - n
                    /\ n >= e.health => j = 0
          /\ score' = score + ValueRemoved(enemies, Ids(enemies'), 1) ]_vars

\* a heavy enemy, hit once before, has just been removed by its second hit
C6_HeavySecondHit ==
    \E i \in Calls("take_damage") :
        /\ log[i].res = "destroyed" /\ log[i].before = 1
        /\ score = SCORE_VALUES("heavy") /\ enemies = << >>

----------------------------------------------------------------------------
\* ==== rapid fire running out ====
\* Stage 1 before the first enemy is out: the player stands in the open row
\* above the fortress facing right, with the rapid-fire bonus it picked up
\* 7.625 s ago.
RapidFrames == 7

RapidScene ==
    [InPlay EXCEPT
        !.player = [apply_bonus(PlayerAt(@, TILE_SIZE * 5, TILE_SIZE * 21, "RIGHT", PLAYER_LIVES),
                                "rapid_fire")
                       EXCEPT !.rapid_fire_timer = (3 * Sec) \div 8],
        !.enemy_spawn_timer = (15 * Sec) \div 10]

RapidTimes == {Sec \div 16}
RapidKeys == {{}, {"SPACE"}, {"RIGHT"}}

InitRapid == InitGame(RapidScene)

UpdateRapid == UpdateWith(RapidTimes, RapidKeys, AllDraws, RapidFrames)

NextRapid == HandleEvents \/ UpdateRapid

SpecRapid == InitRapid /\ [][NextRapid]_vars

\* every tank a bullet can belong to: the player, the live enemies, and the
\* destroyed enemies with bullets still in flight
Tanks == {player} \cup {enemies[i] : i \in DOMAIN enemies} \cup {detached[i] : i \in DOMAIN detached}

\* C1: every tank's active_bullets is at most its max_bullets, and fire() of a
\* tank whose active_bullets equals its max_bullets returns no bullet.
C1_BulletCap ==
    \A t \in Tanks :
        /\ t.active_bullets <= t.max_bullets
        /\ t.active_bullets = t.max_bullets => ~fire(t, 1).fired

----------------------------------------------------------------------------
\* ==== the player's bonuses ====
\* PlayerTank.apply_bonus and the two timer updates Game.update makes each
\* frame, applied to the player in any order: every bonus type, picked up any
\* number of times, and frames of half a second and of three seconds.
MaxExtraLives == 1      \* extra lives picked up

PowerTimes == {Sec \div 2, 3 * Sec}

PickUp ==
    /\ \E t \in BonusType :
          /\ t = "extra_life" => player.lives < PLAYER_LIVES + MaxExtraLives
          /\ player' = apply_bonus(player, t)
          /\ log' = << Entry("apply_bonus", 0, PLAYER_ID, t, player.rapid_fire_timer,
                             apply_bonus(player, t).rapid_fire_timer) >>
    /\ UNCHANGED <<state, stage, score, level, enemies, bullets, bonuses, remaining_enemies,
                   enemy_spawn_timer, game_over_reason, detached, frame,
                   office>>

Tick ==
    /\ \E dt \in PowerTimes :
          LET p == update_powerups(update_timers(player, dt), dt)
          IN  /\ player' = p
              /\ log' = << Entry("update_powerups", 0, PLAYER_ID, "tick",
                                 player.rapid_fire_timer, p.rapid_fire_timer) >>
    /\ UNCHANGED <<state, stage, score, level, enemies, bullets, bonuses, remaining_enemies,
                   enemy_spawn_timer, game_over_reason, detached, frame,
                   office>>

InitPowerups == InitGame(InPlay)

NextPowerups == PickUp \/ Tick

SpecPowerups == InitPowerups /\ [][NextPowerups]_vars

\* C10: with rapid fire run out (rapid_fire_timer back at 0) the player's
\* fire_delay, bullet_speed and max_bullets are the base values again
\* (base_fire_delay, base_bullet_speed, 1), which are those of the
\* construction - however often the bonus was picked up and whether or not a
\* speed boost is running.
C10_RapidFireRestored ==
    player.rapid_fire_timer = 0 =>
        /\ player.fire_delay = player.base_fire_delay
        /\ player.bullet_speed = player.base_bullet_speed
        /\ player.max_bullets = 1
        /\ player.base_fire_delay = PLAYER_FIRE_DELAY
        /\ player.base_bullet_speed = PLAYER_BULLET_SPEED

\* rapid fire has just run out in a tick, a speed boost still running
C10_RanOutUnderBoost ==
    /\ player.rapid_fire_timer = 0
    /\ player.speed_boost_timer > 0
    /\ \E i \in Calls("update_powerups") : log[i].before > 0 /\ log[i].after = 0

----------------------------------------------------------------------------
\* ==== the player shot while its bullet flies ====
\* The end of stage 1: the last two enemies are out.  The player stands at the
\* left edge of the open row above the fortress, facing right along it.  One
\* enemy comes up the left edge from below and is about to fire at the player;
\* the other drives down the right edge and will fire 1.62 s from now.
\* Frames of 1/64 s.
RespawnFrames == 105

RespawnScene ==
    [InPlay EXCEPT
        !.player = PlayerAt(@, 0, TILE_SIZE * 21, "RIGHT", PLAYER_LIVES),
        !.enemies = << EnemyAt(15, 0, TILE_SIZE * 22 + 2, "basic", "UP", (25 * Sec) \div 10, Sec \div 128),
                       EnemyAt(16, TILE_SIZE * 25, TILE_SIZE * 14 + 12, "basic", "DOWN",
                               (29 * Sec) \div 10, (162 * Sec) \div 100) >>,
        !.remaining_enemies = 0,
        !.score = 14 * SCORE_VALUES("basic"),
        !.enemy_spawn_timer = (15 * Sec) \div 10]

RespawnTimes == {Sec \div 64}
RespawnKeys == {{}, {"SPACE"}}

InitRespawn == InitGame(RespawnScene)

UpdateRespawn == UpdateWith(RespawnTimes, RespawnKeys, AllDraws, RespawnFrames)

NextRespawn == HandleEvents \/ UpdateRespawn

SpecRespawn == InitRespawn /\ [][NextRespawn]_vars

\* C5: every bullet removed from the pool during play - out of the play area,
\* on a tile, on a tank or against another bullet - takes exactly one off its
\* owner's active_bullets.
C5_RemovalDecrements ==
    \A i \in Calls("remove_bullet") : log[i].after = log[i].before - 1

\* C4: a friendly and an enemy bullet that overlap after the per-bullet pass
\* are both out of the pool at the end of the frame, each removed once, and
\* each removal takes exactly one off its owner's active_bullets.
C4_PairRemoval ==
    \A i \in Calls("remove_bullet") :
        log[i].res = "pair" =>
            /\ log[i].id \notin Ids(bullets)
            /\ \A j \in Calls("remove_bullet") : log[j].id = log[i].id => j = i
            /\ \E j \in Calls("remove_bullet") :
                  log[j].res = "pair" /\ (log[j].owner = PLAYER_ID) # (log[i].owner = PLAYER_ID)
            /\ log[i].after = log[i].before - 1

----------------------------------------------------------------------------
\* ==== the player waiting to respawn ====
\* Stage 1, the player shot a while ago inside the fortress with a life left,
\* its respawn countdown about to run out.  One fast enemy is inside the
\* fortress too, partly over the player's spawn cell and driving off it to
\* the left.
ReviveFrames == 9

ReviveDt == Sec \div 16

ReviveScene(timer) ==
    [InPlay EXCEPT
        !.player = [start_respawn(PlayerAt(@, PLAYER_SPAWN.x, PLAYER_SPAWN.y, "UP", PLAYER_LIVES - 1))
                       EXCEPT !.respawn_timer = timer],
        !.enemies = << EnemyAt(1, TILE_SIZE * 11 + 14, TILE_SIZE * 23, "fast", "LEFT",
                               ENEMY_DIRECTION_DELAY[1], ENEMY_FIRE_DELAY[1]) >>,
        !.remaining_enemies = @ - 1,
        !.enemy_spawn_timer = (15 * Sec) \div 10]

ReviveTimes == {ReviveDt}
ReviveKeys == {{}, {"SPACE"}}

InitRevive == \E timer \in {ReviveDt, 2 * ReviveDt} : InitGame(ReviveScene(timer))

UpdateRevive == UpdateWith(ReviveTimes, ReviveKeys, AllDraws, ReviveFrames)

NextRevive == HandleEvents \/ UpdateRevive

SpecRevive == InitRevive /\ [][NextRevive]_vars

\* the player's spawn rectangle is clear of terrain and of every enemy
SpawnRectClear ==
    LET spawn_rect == Rect(player.spawn_point.x, player.spawn_point.y, player.rect.w, player.rect.h)
    IN  /\ ~is_rect_blocked(level, spawn_rect)
        /\ \A i \in DOMAIN enemies : ~colliderect(spawn_rect, enemies[i].rect)

\* the respawn countdown runs out in a frame of length ReviveDt
CountdownOver == player.respawn_timer - ReviveDt <= 0

\* C11: in a frame of play a dead player becomes active only if its respawn
\* countdown has run out and the spawn rectangle is clear of terrain and of
\* every enemy; when the countdown runs out over a blocked or occupied spawn
\* rectangle the player stays dead with respawn_timer at the 0.25 s retry
\* delay, and at every expiry - the first or a later one - with the rectangle
\* clear the player is active again.
C11_RespawnGate ==
    [][ (state = "playing" /\ player.dead /\ \A i \in DOMAIN log' : log'[i].op # "handle_events") =>
          /\ ~player'.dead => CountdownOver /\ SpawnRectClear /\ player'.active
          /\ (CountdownOver /\ ~SpawnRectClear) =>
                /\ player'.dead /\ ~player'.active
                /\ player'.respawn_timer = (25 * Sec) \div 100
          /\ (CountdownOver /\ SpawnRectClear) => ~player'.dead /\ player'.active
          /\ ~CountdownOver =>
                player'.dead /\ player'.respawn_timer = player.respawn_timer - ReviveDt ]_vars

\* the player is back after an expiry that found an enemy on its spawn
\* rectangle (the first expiry is in frame 1 or 2, with the enemy still there)
C11_RespawnedOnRetry ==
    /\ frame > 2
    /\ \E i \in Calls("update_respawn") : log[i].res = "respawned"
    /\ player.active /\ ~player.dead

----------------------------------------------------------------------------
\* ==== the player shot with its bonuses running ====
\* Stage 1, one enemy out.  The player stands in the open row above the
\* fortress facing right, two cells from the left edge, with the rapid-fire
\* and the speed bonus it picked up two seconds ago; the enemy stands at the
\* left edge behind it, facing it and about to fire.
FallFrames == 29

FallDt == Sec \div 16

FallScene ==
    [InPlay EXCEPT
        !.player = [apply_bonus(apply_bonus(PlayerAt(@, TILE_SIZE * 2, TILE_SIZE * 21, "RIGHT", PLAYER_LIVES),
                                            "rapid_fire"), "speed")
                       EXCEPT !.rapid_fire_timer = 6 * Sec, !.speed_boost_timer = 4 * Sec],
        !.enemies = << EnemyAt(1, 0, TILE_SIZE * 21, "basic", "RIGHT", 3 * Sec, Sec \div 32) >>,
        !.remaining_enemies = @ - 1,
        !.enemy_spawn_timer = 2 * Sec]

FallTimes == {FallDt}
FallKeys == {{}, {"SPACE"}}

InitFall == InitGame(FallScene)

UpdateFall == UpdateWith(FallTimes, FallKeys, AllDraws, FallFrames)

NextFall == HandleEvents \/ UpdateFall

SpecFall == InitFall /\ [][NextFall]_vars

\* C12: when update_respawn completes a respawn the player is at its spawn
\* point facing UP, active, with cooldown_timer 0, active_bullets 0,
\* invulnerable_timer 2.5 s, speed, fire_delay and bullet_speed at the base
\* values, max_bullets 1 and both power-up timers at 0; its place, facing,
\* cooldown and bullet count are still so at the end of that frame.
C12_RespawnState ==
    [][ (\E i \in DOMAIN log' : log'[i].op = "update_respawn" /\ log'[i].res = "respawned") =>
          LET q == PlayerPart([GameRec EXCEPT !.log = << >>], FallDt, {}).player
          IN  /\ q.active /\ ~q.dead
              /\ q.pos = [x |-> PLAYER_SPAWN.x * Px, y |-> PLAYER_SPAWN.y * Px]
              /\ q.rect = Rect(PLAYER_SPAWN.x, PLAYER_SPAWN.y, TILE_SIZE, TILE_SIZE)
              /\ q.direction = "UP"
              /\ q.cooldown_timer = 0
              /\ q.active_bullets = 0
              /\ q.invulnerable_timer = (25 * Sec) \div 10
              /\ q.speed = PLAYER_SPEED /\ q.speed = q.base_speed
              /\ q.fire_delay = PLAYER_FIRE_DELAY /\ q.fire_delay = q.base_fire_delay
              /\ q.bullet_speed = PLAYER_BULLET_SPEED /\ q.bullet_speed = q.base_bullet_speed
              /\ q.max_bullets = 1
              /\ q.rapid_fire_timer = 0 /\ q.speed_boost_timer = 0
              /\ player'.rect = q.rect /\ player'.direction = q.direction
              /\ player'.cooldown_timer = 0 /\ player'.active_bullets = 0 ]_vars

\* the player, shot with both bonuses running, has just respawned
C12_BackFromDeath ==
    /\ \E i \in Calls("update_respawn") : log[i].res = "respawned"
    /\ player.lives = PLAYER_LIVES - 1
    /\ player.active /\ player.rect = Rect(PLAYER_SPAWN.x, PLAYER_SPAWN.y, TILE_SIZE, TILE_SIZE)

----------------------------------------------------------------------------
\* ==== bullets and tanks against the terrain ====
\* Level.handle_bullet_collision applied, in any order and any number of
\* times, to bullets at a set of places of the level: over one tile of each
\* kind the layout has, over two tiles of different kinds, over the border of
\* the two base tiles, and over empty ground; and Level.is_rect_blocked
\* applied to tank and bullet rectangles there and at the edges of the play
\* area.
ProbeCentres ==
    << [x |-> 144, y |-> 168],      \* steel (6,6) above and right of brick (5,7)
       [x |-> 144, y |-> 144],      \* brick (5,5) above and left of steel (6,6)
       [x |-> 132, y |-> 180],      \* brick (5,7)
       [x |-> 156, y |-> 156],      \* steel (6,6)
       [x |-> 216, y |-> 408],      \* forest (8,16), (9,16) over bricks (8,17), (9,17)
       [x |-> 228, y |-> 396],      \* forest (9,16)
       [x |-> 228, y |-> 216],      \* brick (9,8) over water (9,9)
       [x |-> 216, y |-> 204],      \* bricks (8,8), (9,8)
       [x |-> 228, y |-> 228],      \* water (9,9)
       [x |-> 12, y |-> 12],        \* empty ground
       [x |-> 288, y |-> 612],      \* both base tiles
       [x |-> 276, y |-> 612],      \* base tile (11,25)
       [x |-> 264, y |-> 600] >>    \* the corner of base tile (11,25)

ProbeBullet(k) == ShotAt(ProbeCentres[k])

Probe ==
    /\ \E k \in DOMAIN ProbeCentres :
          SetGame(ShotResolved(Logged([GameRec EXCEPT !.log = << >>],
                                      Entry("probe", k, PLAYER_ID, "at", 0, 0)),
                               ProbeBullet(k)))
    /\ UNCHANGED frame

InitTiles == InitGame(InPlay)

NextTiles == HandleEvents \/ Probe

SpecTiles == InitTiles /\ [][NextTiles]_vars

\* the cells of the grid the rectangle reaches into
Covered(rect) ==
    {c \in (0 .. GRID_SIZE - 1) \X (0 .. GRID_SIZE - 1) :
        /\ c[1] * TILE_SIZE < Right(rect) /\ (c[1] + 1) * TILE_SIZE > Left(rect)
        /\ c[2] * TILE_SIZE < Bottom(rect) /\ (c[2] + 1) * TILE_SIZE > Top(rect)}

\* the covered cells that hold a tile stopping bullets
Blocking(lv, rect) ==
    {c \in Covered(rect) : HasTile(lv, c) /\ TILE_DEFINITIONS[TileTypeAt(lv, c)].bullet_block}

\* the first cell of a set in row-major order
FirstCell(S) == CHOOSE c \in S : \A d \in S : c[2] < d[2] \/ (c[2] = d[2] /\ c[1] <= d[1])

\* the cells whose tile differs between two levels
Changed(lv1, lv2) ==
    {c \in LEVEL_CELLS : \/ HasTile(lv1, c) # HasTile(lv2, c)
                         \/ TileTypeAt(lv1, c) # TileTypeAt(lv2, c)}

\* the last call of handle_bullet_collision was for the bullet at place k
ProbedAt(k) == \E i \in Calls("probe") : log[i].id = k

Returned(ret) == \E i \in Calls("handle_bullet_collision") : log[i].res = ret

\* C13: handle_bullet_collision returns None, the level unchanged, when the
\* rectangle covers no tile that stops bullets (empty cells and forest are
\* passed through); otherwise, for the first such tile, it returns "base" for
\* a live base tile (base_alive false after it, every base tile BASE_RUIN),
\* "brick" for a destructible tile (that tile gone from the level), and "block"
\* for any other (the level unchanged).
C13_CollisionResult ==
    \A k \in DOMAIN ProbeCentres :
        LET rect == ProbeBullet(k).rect
            col == handle_bullet_collision(level, rect)
            B == Blocking(level, rect)
        IN  IF B = {} THEN col.ret = "none" /\ col.level = level
            ELSE LET c == FirstCell(B)
                     t == TileTypeAt(level, c)
                 IN  IF t = "base" /\ level.base_alive
                     THEN /\ col.ret = "base"
                          /\ ~col.level.base_alive
                          /\ BaseRuined(col.level)
                     ELSE IF TILE_DEFINITIONS[t].destructible
                     THEN /\ col.ret = "brick"
                          /\ ~HasTile(col.level, c)
                          /\ col.level.base_alive = level.base_alive
                     ELSE /\ col.ret = "block"
                          /\ col.level = level

\* a bullet over forest and brick has taken the brick out, and steel, water
\* and the ruined base have stopped bullets before it
C13_BrickUnderForest ==
    /\ ProbedAt(5) /\ Returned("brick")
    /\ <<8, 17>> \in level.popped
    /\ HasTile(level, <<8, 16>>) /\ TileTypeAt(level, <<8, 16>>) = "forest"

\* C14 as claimed: of the tiles the rectangle covers a call changes none but
\* the first bullet-blocking one in row-major order.
C14_OnlyFirstTouched ==
    \A k \in DOMAIN ProbeCentres :
        LET rect == ProbeBullet(k).rect
            col == handle_bullet_collision(level, rect)
            B == Blocking(level, rect)
        IN  (Changed(level, col.level) \cap Covered(rect))
                \subseteq (IF B = {} THEN {} ELSE {FirstCell(B)})

\* C14, amended: a call resolves the first bullet-blocking tile in row-major
\* order only - a brick there is the one tile removed, steel, water or a ruin
\* there leaves every tile as it was, later bricks under the rectangle
\* included - except that a hit on the live base turns every base tile, under
\* the rectangle or not, into BASE_RUIN.
C14_FirstTileResolved ==
    \A k \in DOMAIN ProbeCentres :
        LET rect == ProbeBullet(k).rect
            col == handle_bullet_collision(level, rect)
            B == Blocking(level, rect)
        IN  IF B = {} THEN Changed(level, col.level) = {}
            ELSE LET c == FirstCell(B)
                     t == TileTypeAt(level, c)
                 IN  IF t = "base" /\ level.base_alive
                     THEN Changed(level, col.level) = base_tiles(level)
                     ELSE IF TILE_DEFINITIONS[t].destructible
                     THEN Changed(level, col.level) = {c}
                     ELSE Changed(level, col.level) = {}

\* a bullet over two bricks side by side has taken out the left one and left
\* the right one standing
C14_SecondBrickStands ==
    /\ ProbedAt(8) /\ Returned("brick")
    /\ <<8, 8>> \in level.popped
    /\ HasTile(level, <<9, 8>>) /\ <<9, 8>> \in Blocking(level, ProbeBullet(8).rect)

\* the rectangles is_rect_blocked is asked about: a tank and a bullet at each
\* of the places above, a tank on a forest cell, tanks in the corners of the
\* play area, and tanks one pixel over each of its edges
BlockRects ==
    {RectCentered(ProbeCentres[k].x, ProbeCentres[k].y, w, w) :
        k \in DOMAIN ProbeCentres, w \in {BULLET_SIZE, TILE_SIZE}}
    \cup {Rect(p[1], p[2], TILE_SIZE, TILE_SIZE) :
            p \in {<<TILE_SIZE * 9, TILE_SIZE * 16>>, <<0, 0>>,
                   <<PLAY_AREA_WIDTH - TILE_SIZE, PLAY_AREA_HEIGHT - TILE_SIZE>>,
                   <<-1, 0>>, <<0, -1>>,
                   <<PLAY_AREA_WIDTH - TILE_SIZE + 1, 0>>, <<0, PLAY_AREA_HEIGHT - TILE_SIZE + 1>>,
                   <<PLAY_AREA_WIDTH - TILE_SIZE + 1, PLAY_AREA_HEIGHT - TILE_SIZE>>}}

\* the rectangle reaches outside the play area
Outside(rect) ==
    \/ Left(rect) < 0 \/ Top(rect) < 0
    \/ Right(rect) > GRID_SIZE * TILE_SIZE \/ Bottom(rect) > GRID_SIZE * TILE_SIZE

\* the rectangle covers a cell whose tile is not passable
OnImpassable(lv, rect) ==
    \E c \in Covered(rect) : HasTile(lv, c) /\ ~TILE_DEFINITIONS[TileTypeAt(lv, c)].passable

\* C15: is_rect_blocked is true exactly of the rectangles that reach outside
\* the 26 x 26 play area or cover a cell whose tile has passable false; a
\* rectangle inside the area over empty cells and forest only is not blocked.
C15_BlockedExactly ==
    \A rect \in BlockRects :
        is_rect_blocked(level, rect) <=> (Outside(rect) \/ OnImpassable(level, rect))

\* bricks shot away have opened a place for a tank that the level as built
\* blocked, while tanks over steel and over the edges stay blocked
C15_PassageOpened ==
    /\ \E rect \in BlockRects :
          /\ ~Outside(rect) /\ Covered(rect) \cap level.popped # {}
          /\ ~is_rect_blocked(level, rect)
          /\ is_rect_blocked(NewLevel(level.layout), rect)
    /\ \E rect \in BlockRects : Outside(rect) /\ is_rect_blocked(level, rect)

----------------------------------------------------------------------------
\* ==== firing ====
\* a tank that Tank.fire turns down: cooling down, or with all its bullets out
FireRefused(t) == t.cooldown_timer > 0 \/ t.active_bullets >= t.max_bullets

\* C16: fire() of a tank that is cooling down or has max_bullets bullets out
\* returns no bullet and leaves the tank as it was, and the frame's fire key
\* then leaves the pool as it was; fire() of any other tank returns one bullet
\* of that tank heading where the tank faces, sets cooldown_timer to the
\* tank's current fire_delay and adds one to active_bullets, and the frame's
\* fire key then adds exactly that bullet to the pool.
C16_FireContract ==
    /\ \A t \in Tanks :
          LET f == fire(t, FreshId(Ids(bullets)))
          IN  IF FireRefused(t) THEN ~f.fired /\ f.tank = t
              ELSE /\ f.fired
                   /\ f.bullet.direction = t.direction /\ f.bullet.owner = t.id
                   /\ f.bullet.speed = t.bullet_speed /\ f.bullet.friendly = t.friendly
                   /\ f.tank = [t EXCEPT !.cooldown_timer = t.fire_delay,
                                         !.active_bullets = t.active_bullets + 1]
    /\ (state = "playing" /\ ~player.dead) =>
          \A dt \in RapidTimes, keys \in RapidKeys :
              LET p == update_powerups(update_timers(player, dt), dt)
                  G == PlayerPart([GameRec EXCEPT !.log = << >>], dt, keys)
              IN  IF "SPACE" \in keys /\ ~FireRefused(p)
                  THEN /\ Len(G.bullets) = Len(bullets) + 1
                       /\ SubSeq(G.bullets, 1, Len(bullets)) = bullets
                       /\ G.bullets[Len(G.bullets)].owner = PLAYER_ID
                       /\ G.bullets[Len(G.bullets)].direction = G.player.direction
                       /\ G.player.cooldown_timer = p.fire_delay
                       /\ G.player.active_bullets = p.active_bullets + 1
                  ELSE /\ G.bullets = bullets
                       /\ G.player.cooldown_timer = p.cooldown_timer
                       /\ G.player.active_bullets = p.active_bullets

\* the player has fired its second bullet under rapid fire, its cooldown set
\* to the shortened fire_delay, and is turned down until it has run
C16_SecondShotFired ==
    /\ \E i \in Calls("fire") : log[i].owner = PLAYER_ID /\ log[i].before = 1 /\ log[i].after = 2
    /\ player.fire_delay < player.base_fire_delay
    /\ player.cooldown_timer = player.fire_delay
    /\ FireRefused(player) /\ ~fire(player, FreshId(Ids(bullets))).fired

----------------------------------------------------------------------------
\* ==== bullets meeting ====
\* Stage 1, two enemies out.  The player stands in the open row above the
\* fortress facing right; one enemy comes along the row towards it, the other
\* stands a row lower, to the player's left, facing the bricks above the row.
\* Both enemies are about to fire.
VolleyFrames == 4

VolleyScene ==
    [InPlay EXCEPT
        !.player = PlayerAt(@, TILE_SIZE * 5, TILE_SIZE * 21, "RIGHT", PLAYER_LIVES),
        !.enemies = << EnemyAt(1, TILE_SIZE * 10 - 5, TILE_SIZE * 21, "basic", "LEFT", 2 * Sec, Sec \div 32),
                       EnemyAt(2, TILE_SIZE * 3, TILE_SIZE * 22 + 6, "basic", "UP", 2 * Sec, Sec \div 32) >>,
        !.remaining_enemies = @ - 2,
        !.enemy_spawn_timer = (15 * Sec) \div 10]

VolleyTimes == {Sec \div 16}
VolleyKeys == {{}, {"SPACE"}, {"LEFT"}}

InitVolley == InitGame(VolleyScene)

UpdateVolley == UpdateWith(VolleyTimes, VolleyKeys, AllDraws, VolleyFrames)

NextVolley == HandleEvents \/ UpdateVolley

SpecVolley == InitVolley /\ [][NextVolley]_vars

\* the calls the per-bullet pass of update_bullets makes
FirstPass(e) ==
    \/ e.op \in {"handle_bullet_collision", "take_damage", "on_player_hit"}
    \/ e.op = "remove_bullet" /\ e.res # "pair"

\* no friendly and enemy bullet of the pool overlap
NoneMeeting(bs) ==
    \A i, j \in DOMAIN bs :
        bs[i].friendly # bs[j].friendly => ~colliderect(bs[i].rect, bs[j].rect)

\* C17: in every frame each call of the per-bullet pass (tile, tank and
\* bounds resolution) comes before every removal of the pairwise pass; the
\* pairwise pass removes bullets in friendly-enemy pairs of bullets that
\* outlived the per-bullet pass and leaves no such pair overlapping in the
\* pool; and no bullet is removed twice: the removals are of distinct bullets
\* and are as many as the bullets that left the pool.
C17_PassOrder ==
    [][ LET rem == {i \in DOMAIN log' : log'[i].op = "remove_bullet"}
            fired == {i \in DOMAIN log' : log'[i].op = "fire"}
        IN  (\A i \in DOMAIN log' : log'[i].op # "handle_events") =>
              /\ \A i, j \in rem : log'[i].id = log'[j].id => i = j
              /\ Cardinality(rem) = Len(bullets) + Cardinality(fired) - Len(bullets')
              /\ \A i \in rem : log'[i].id \notin Ids(bullets')
              /\ \A i \in rem :
                    log'[i].res = "pair" =>
                        /\ \A j \in DOMAIN log' : FirstPass(log'[j]) => j < i
                        /\ \E j \in rem :
                              /\ log'[j].res = "pair"
                              /\ (log'[j].owner = PLAYER_ID) # (log'[i].owner = PLAYER_ID)
              /\ NoneMeeting(bullets') ]_vars

\* a frame in which one bullet ended on a brick and two others on each other
C17_TileThenPair ==
    /\ \E i \in Calls("remove_bullet") : log[i].res = "tile"
    /\ \E i, j \in Calls("remove_bullet") :
          /\ log[i].res = "pair" /\ log[j].res = "pair"
          /\ log[i].owner = PLAYER_ID /\ log[j].owner # PLAYER_ID

----------------------------------------------------------------------------
\* ==== from stage to stage ====
\* The program at its start (the menu), or at the end of a stage: every
\* enemy of the stage spawned, the last one driving away from the player in
\* the open row above the fortress, the player two cells behind it.
MaxStage == 8       \* the stages whose end is explored
StageFrames == 4

StageEndScene(n) ==
    LET G == prepare_stage([InPlay EXCEPT !.stage = n], FALSE)
    IN  [G EXCEPT
            !.player = PlayerAt(@, TILE_SIZE * 5, TILE_SIZE * 21, "RIGHT", PLAYER_LIVES),
            !.enemies = << EnemyAt(G.remaining_enemies, TILE_SIZE * 7, TILE_SIZE * 21, "basic", "RIGHT",
                                   ENEMY_DIRECTION_DELAY[1], ENEMY_FIRE_DELAY[1]) >>,
            !.remaining_enemies = 0,
            !.score = (G.remaining_enemies - 1) * SCORE_VALUES("basic")]

StageTimes == {Sec \div 16}
StageKeys == {{}, {"SPACE"}}

InitStages == InitGame(NewGame) \/ \E n \in 1 .. MaxStage : InitGame(StageEndScene(n))

UpdateStages == UpdateWith(StageTimes, StageKeys, AllDraws, StageFrames)

NextStages == HandleEvents \/ UpdateStages

SpecStages == InitStages /\ [][NextStages]_vars

\* handle_events has just had prepare_stage called (from the menu, after a
\* game over, or after a victory)
StagePrepared ==
    \E i \in Calls("handle_events") : log[i].res \in {"menu", "game_over", "victory"}

\* C18: a stage just prepared, whatever its number s >= 1, has
\* remaining_enemies = min(16 + (s - 1) * 4, 40) and no live enemy.
C18_StageSeed ==
    StagePrepared =>
        /\ stage >= 1
        /\ remaining_enemies = Min(16 + (stage - 1) * 4, 40)
        /\ enemies = << >>
        /\ state = "playing"

\* a stage past the seventh has just been prepared after a victory: its
\* count is at the cap
C18_CappedStage ==
    /\ \E i \in Calls("handle_events") : log[i].res = "victory"
    /\ stage > 7 /\ remaining_enemies = 40 /\ 16 + (stage - 1) * 4 > 40

----------------------------------------------------------------------------
\* ==== the field filling up ====
\* Stage 1, three or four enemies out, driving right along the open row above
\* the fortress, none about to turn or fire; the player at its spawn point;
\* the spawn timer about to run out.
CrowdFrames == 3

RECURSIVE CrowdRow(_, _)
CrowdRow(k, n) ==
    IF k > n THEN << >>
    ELSE << EnemyAt(k, TILE_SIZE * 4 * (k - 1), TILE_SIZE * 21, "basic", "RIGHT",
                    ENEMY_DIRECTION_DELAY[2], ENEMY_FIRE_DELAY[2]) >> \o CrowdRow(k + 1, n)

CrowdScene(n) ==
    [InPlay EXCEPT
        !.player = PlayerAt(@, PLAYER_SPAWN.x, PLAYER_SPAWN.y, "UP", PLAYER_LIVES),
        !.enemies = CrowdRow(1, n),
        !.remaining_enemies = @ - n,
        !.enemy_spawn_timer = Sec \div 16]

CrowdTimes == {Sec \div 16}
CrowdKeys == {{}, {"SPACE"}}

InitCrowd == \E n \in MAX_ACTIVE_ENEMIES - 1 .. MAX_ACTIVE_ENEMIES : InitGame(CrowdScene(n))

UpdateCrowd == UpdateWith(CrowdTimes, CrowdKeys, AllDraws, CrowdFrames)

NextCrowd == HandleEvents \/ UpdateCrowd

SpecCrowd == InitCrowd /\ [][NextCrowd]_vars

\* C19: at most MAX_ACTIVE_ENEMIES (4) enemies are live at any time.
C19_LiveEnemyCap ==
    Len(enemies) <= 4 /\ Len(enemies) <= MAX_ACTIVE_ENEMIES

\* four enemies are live, more are to come, and the frame's spawn attempt has
\* added none
C19_FullHouse ==
    /\ Len(enemies) = MAX_ACTIVE_ENEMIES /\ remaining_enemies > 0
    /\ \E i \in Calls("spawn_enemy") : log[i].res = "full" /\ log[i].after = log[i].before

----------------------------------------------------------------------------
\* ==== the last enemy ====
\* The end of stage 1: every enemy spawned, one left, inside the fortress
\* with the player and about to fire.  Either it stands over the right base
\* tile facing down, the player two cells to its left facing it; or it stands
\* close to the player, the two facing each other.
FinaleFrames == 3

FinaleScene(kind, lives) ==
    [InPlay EXCEPT
        !.player = PlayerAt(@, TILE_SIZE * 10, TILE_SIZE * 23, "RIGHT", lives),
        !.enemies = IF kind = "base"
                    THEN << EnemyAt(16, TILE_SIZE * 12, TILE_SIZE * 23, "basic", "DOWN", Sec, Sec \div 32) >>
                    ELSE << EnemyAt(16, TILE_SIZE * 11 + 6, TILE_SIZE * 23, "basic", "LEFT", Sec, Sec \div 32) >>,
        !.remaining_enemies = 0,
        !.score = 15 * SCORE_VALUES("basic"),
        !.enemy_spawn_timer = (15 * Sec) \div 10]

FinaleTimes == {Sec \div 16}
FinaleKeys == {{}, {"SPACE"}}

InitFinale == \E kind \in {"base", "player"}, lives \in 1 .. 2 : InitGame(FinaleScene(kind, lives))

UpdateFinale == UpdateWith(FinaleTimes, FinaleKeys, AllDraws, FinaleFrames)

NextFinale == HandleEvents \/ UpdateFinale

SpecFinale == InitFinale /\ [][NextFinale]_vars

\* the player's last life was lost in the handler that led to the log lg
LastLifeLost(lg) == \E i \in DOMAIN lg : lg[i].op = "on_player_hit" /\ lg[i].res = "game_over"

\* an enemy was destroyed in the handler that led to the log lg
EnemyDestroyed(lg) == \E i \in DOMAIN lg : lg[i].op = "take_damage" /\ lg[i].res = "destroyed"

\* C20: the state turns to victory only in a frame of play at whose end
\* remaining_enemies is 0 and no enemy is live, the base stands and the
\* player's last life is not lost; a frame of play in which the base is
\* destroyed or the last life lost ends in game_over - also when the last
\* enemy dies in it.
C20_VictoryOnlyWhenWon ==
    [][ (\A i \in DOMAIN log' : log'[i].op # "handle_events") =>
          /\ (state' = "victory" /\ state # "victory") =>
                /\ state = "playing"
                /\ remaining_enemies' = 0 /\ enemies' = << >>
                /\ level'.base_alive /\ ~LastLifeLost(log')
          /\ (state = "playing" /\ (~level'.base_alive \/ LastLifeLost(log'))) =>
                state' = "game_over"
          /\ (state = "playing" /\ remaining_enemies' = 0 /\ enemies' = << >>
                  /\ level'.base_alive /\ ~LastLifeLost(log')) =>
                state' = "victory" ]_vars

\* the last enemy died in the frame its bullet destroyed the base: the game
\* is over, not won
C20_LastEnemyAndBase ==
    /\ EnemyDestroyed(log) /\ Returned("base")
    /\ remaining_enemies = 0 /\ enemies = << >>
    /\ state = "game_over" /\ game_over_reason = "base"

----------------------------------------------------------------------------
\* ==== after the end of a stage ====
\* The program at its start (the menu), or the end of stage 2 as in the last
\* enemy's scenes, on a field already shot at: two bricks of the fortress
\* wall and one of the top-left block are gone.  The stage ends in victory or
\* in a game over (the base destroyed, or the last life lost) while the bullet
\* of an enemy destroyed earlier still flies along the top row, and the
\* confirm key is pressed.
EncoreFrames == 3

EncoreScene(kind, lives) ==
    [FinaleScene(kind, lives) EXCEPT
        !.stage = 2,
        !.level.popped = {<<9, 22>>, <<14, 23>>, <<4, 1>>},
        !.detached = << [EnemyAt(15, TILE_SIZE * 2, 0, "basic", "RIGHT", Sec, Sec)
                            EXCEPT !.active_bullets = 1] >>,
        !.bullets = << NewBullet(1, [x |-> 100 * Px, y |-> 12 * Px], "RIGHT", 280 * Px, 15, FALSE) >>,
        !.score = 19 * SCORE_VALUES("basic")]

EncoreTimes == {Sec \div 16}
EncoreKeys == {{}, {"SPACE"}}

InitEncore ==
    \/ InitGame(NewGame)
    \/ \E kind \in {"base", "player"}, lives \in 1 .. 2 : InitGame(EncoreScene(kind, lives))

UpdateEncore == UpdateWith(EncoreTimes, EncoreKeys, AllDraws, EncoreFrames)

NextEncore == HandleEvents \/ UpdateEncore

SpecEncore == InitEncore /\ [][NextEncore]_vars

\* the step is a confirm key handled by handle_events
Confirmed == \E i \in DOMAIN log' : log'[i].op = "handle_events"

\* a level as Level.__init__ leaves it: every tile of the layout, the base alive
FreshLevel(lv) == lv.popped = {} /\ lv.redefined = {} /\ lv.base_alive

\* C21: the confirm key in the victory state raises stage by exactly 1,
\* rebuilds the level with a live base, reseeds the enemy counter (no enemy
\* live) and leaves the score and the player's lives as they were.
C21_NextStage ==
    [][ (Confirmed /\ state = "victory") =>
          /\ stage' = stage + 1
          /\ FreshLevel(level')
          /\ remaining_enemies' = Min(16 + (stage' - 1) * 4, 40)
          /\ enemies' = << >>
          /\ score' = score
          /\ player'.lives = player.lives
          /\ state' = "playing" ]_vars

\* stage 3 has just been prepared after the victory of stage 2, won on a
\* damaged field with one life left: the score and the lives are kept
C21_ThirdStageOpened ==
    /\ \E i \in Calls("handle_events") : log[i].res = "victory"
    /\ stage = 3 /\ score = 20 * SCORE_VALUES("basic")
    /\ player.lives = 1 /\ FreshLevel(level) /\ remaining_enemies = 24

\* C22: the confirm key in the game_over state, as in the menu, starts stage 1
\* with score 0, three lives, a fresh level with a live base, no enemy and no
\* bullet, game_over_reason cleared and state playing.
C22_NewGame ==
    [][ (Confirmed /\ state \in {"game_over", "menu"}) =>
          /\ stage' = 1
          /\ score' = 0
          /\ player'.lives = 3
          /\ FreshLevel(level')
          /\ enemies' = << >>
          /\ bullets' = << >>
          /\ game_over_reason' = "none"
          /\ state' = "playing" ]_vars

\* a new game has just been started after a game over
C22_StartedOver ==
    /\ \E i \in Calls("handle_events") : log[i].res = "game_over"
    /\ stage = 1 /\ score = 0 /\ player.lives = PLAYER_LIVES
    /\ FreshLevel(level) /\ state = "playing" /\ bullets = << >>

----------------------------------------------------------------------------
\* ==== building a level ====
\* Level(layout) and Level(parse_level_layout(raw)) for layouts that differ
\* from LEVEL_LAYOUT in the number of rows (the last row missing, or a row
\* too many) and in the width of one row (a character short, or one too
\* many).  The level built is not put into a game: the log keeps the layout
\* given (entry "layout") and what the constructor did (entry "Level").
MaxRaggedRow == 24  \* the rows whose width is changed: 1 .. MaxRaggedRow

\* str.rstrip of one row
RECURSIVE rstrip(_)
rstrip(row) ==
    IF row # << >> /\ row[Len(row)] = " " THEN rstrip(SubSeq(row, 1, Len(row) - 1)) ELSE row

\* str.ljust(width, ".")
RECURSIVE ljust(_, _)
ljust(row, width) == IF Len(row) >= width THEN row ELSE ljust(Append(row, "."), width)

\* parse_level_layout, given the lines of raw.strip()
parse_level_layout(lines) ==
    LET rows == [i \in DOMAIN lines |-> rstrip(lines[i])]
        width == CHOOSE w \in {Len(rows[i]) : i \in DOMAIN rows} :
                     \A i \in DOMAIN rows : Len(rows[i]) <= w
    IN  [i \in DOMAIN rows |-> ljust(rows[i], width)]

\* Level.__init__ as a function of the layout: the error raised ("none" when
\* it returns) and the tiles built
LevelOf(layout) ==
    IF ~LayoutOk(layout)
    THEN [raised |-> "ValueError", tiles |-> << >>]
    ELSE [raised |-> "none", tiles |-> BuildTiles(layout)]

\* LEVEL_LAYOUT with n rows and row k one character shorter (d = -1) or
\* longer (d = 1); k = 0 changes no row
Ragged(n, k, d) ==
    LET rows == IF n < GRID_SIZE THEN SubSeq(LEVEL_LAYOUT, 1, n)
                ELSE LEVEL_LAYOUT \o [i \in 1 .. n - GRID_SIZE |-> LEVEL_LAYOUT[1]]
    IN  [i \in DOMAIN rows |->
            IF i # k THEN rows[i]
            ELSE IF d < 0 THEN SubSeq(rows[i], 1, Len(rows[i]) - 1)
            ELSE Append(rows[i], ".")]

\* the layout the entry e of the log describes
LayoutGiven(e) == Ragged(e.owner, e.id, e.before)

InitLayouts ==
    \E n \in GRID_SIZE - 1 .. GRID_SIZE + 1, k \in 0 .. MaxRaggedRow, d \in {-1, 1},
       route \in {"direct", "parsed"} :
       /\ (k = 0 => d = 1)
       /\ InitGame([NewGame EXCEPT !.log = << Entry("layout", k, n, route, d, 0) >>])

\* Level(layout), or Level(parse_level_layout(raw)), for the layout given
Construct ==
    /\ Len(log) = 1 /\ log[1].op = "layout"
    /\ LET layout == IF log[1].res = "parsed" THEN parse_level_layout(LayoutGiven(log[1]))
                      ELSE LayoutGiven(log[1])
           built == LevelOf(layout)
       IN  log' = Append(log, Entry("Level", log[1].id, log[1].owner, built.raised,
                                    0, Cardinality(DOMAIN built.tiles)))
    /\ UNCHANGED <<state, stage, score, level, player, enemies, bullets, bonuses,
                   remaining_enemies, enemy_spawn_timer, game_over_reason, detached, frame,
                   office>>

NextLayouts == Construct

SpecLayouts == InitLayouts /\ [][NextLayouts]_vars

\* the layout is GRID_SIZE rows of GRID_SIZE characters each
Is26x26(layout) == Len(layout) = 26 /\ \A i \in DOMAIN layout : Len(layout[i]) = 26

\* C23: constructing a Level from a layout that is not 26x26 (a wrong number
\* of rows, or any row whose width is not 26) fails with an error and yields
\* no level.
C23_MismatchFatal ==
    \A i \in DOMAIN log :
        (log[i].op = "Level" /\ ~Is26x26(LayoutGiven(log[1]))) =>
            log[i].res # "none" /\ log[i].after = 0

----------------------------------------------------------------------------
\* ==== a stall ====
\* Game.run: dt = self.clock.tick(FPS) / 1000.0, the milliseconds since the
\* last pass of the loop, handed to update as it is.  Stage 1 just prepared;
\* a pass takes 20 ms, or StallMs after the program was held up (the window
\* dragged, the machine busy).
StallMs == 1000     \* the longest time between two passes of the loop, in ms
StallFrames == 2

\* the dt of a pass that comes ms milliseconds after the last one
tick_dt(ms) == (ms * Sec) \div 1000

StallTimes == {tick_dt(20), tick_dt(StallMs)}
StallKeys == {{}, {"UP"}, {"SPACE"}}

InitStall == InitGame(InPlay)

UpdateStall == UpdateWith(StallTimes, StallKeys, AllDraws, StallFrames)

NextStall == HandleEvents \/ UpdateStall

SpecStall == InitStall /\ [][NextStall]_vars

\* the longest step a clamped loop would hand to update: 0.05 s, three frames
\* at FPS
StepBound == Sec \div 20

\* C24: the dt passed to update is clamped to a fixed upper bound: no frame
\* of play advances a timer, a tank or a bullet by more than that bound
\* allows.
C24_StepClamped ==
    [][ (frame' = frame + 1 /\ state = "playing") =>
          /\ player.invulnerable_timer - player'.invulnerable_timer <= StepBound
          /\ (\A i \in DOMAIN log' : log'[i].op # "spawn_enemy") =>
                enemy_spawn_timer - enemy_spawn_timer' <= StepBound
          /\ (player'.pos.y - player.pos.y) * vector(player'.direction).y
                <= Travel(player.speed, StepBound)
          /\ \A i \in DOMAIN bullets, j \in DOMAIN bullets' :
                bullets'[j].id = bullets[i].id =>
                    (bullets'[j].position.y - bullets[i].position.y) * vector(bullets[i].direction).y
                        <= Travel(bullets[i].speed, StepBound) ]_vars

----------------------------------------------------------------------------
\* ==== sliding along a corner ====
\* Tank._try_axis_move called on the player with steps along both axes.  The
\* player stands in the top-left corner of the pocket under the brick block
\* of the top-left quarter: bricks above it (row 3) and to its left (column
\* 2), open cells to its right and below; an enemy stands on the cell below
\* and to the right of it.  Each step is 6 pixels (or none) along each axis.
SlideMoves == 4

SlideStep == Travel(PLAYER_SPEED, Sec \div 16)
SlideSteps == {-SlideStep, 0, SlideStep}

SlideScene ==
    [InPlay EXCEPT
        !.player = PlayerAt(@, TILE_SIZE * 3, TILE_SIZE * 4, "UP", PLAYER_LIVES),
        !.enemies = << EnemyAt(1, TILE_SIZE * 4, TILE_SIZE * 5, "basic", "DOWN",
                               ENEMY_DIRECTION_DELAY[2], ENEMY_FIRE_DELAY[2]) >>,
        !.remaining_enemies = @ - 1]

InitSlide == InitGame(SlideScene)

\* self._try_axis_move(dx, dy, level, others) on the player
Slide ==
    /\ frame < SlideMoves
    /\ \E dx \in SlideSteps, dy \in SlideSteps :
          LET m == try_axis_move(player, dx, dy, level, EnemyOthers(GameRec))
          IN  /\ player' = m.tank
              /\ log' = << Entry("_try_axis_move", dx, dy,
                                 IF m.moved THEN "moved" ELSE "stuck", player.pos, m.tank.pos) >>
    /\ frame' = frame + 1
    /\ UNCHANGED <<state, stage, score, level, enemies, bullets, bonuses,
                   remaining_enemies, enemy_spawn_timer, game_over_reason, detached, office>>

NextSlide == Slide

SpecSlide == InitSlide /\ [][NextSlide]_vars

\* the player's rectangle put at the position (x, y) is neither blocked by
\* the level nor over an enemy
CandidateFree(x, y) ==
    LET r == Rect(PyRound(x), PyRound(y), TILE_SIZE, TILE_SIZE)
    IN  /\ ~is_rect_blocked(level, r)
        /\ \A k \in DOMAIN enemies : ~colliderect(r, enemies[k].rect)

\* C25: _try_axis_move with dx and dy both non-zero resolves the axes one
\* after the other: x moves iff the x-candidate is free, y moves iff the
\* y-candidate, taken from the position x was left at, is free; the call
\* returns true iff at least one axis moved.
C25_AxesIndependent ==
    [][ \A i \in DOMAIN log' :
          (log'[i].op = "_try_axis_move" /\ log'[i].id # 0 /\ log'[i].owner # 0) =>
              LET dx == log'[i].id
                  dy == log'[i].owner
                  xmoves == CandidateFree(player.pos.x + dx, player.pos.y)
                  x1 == IF xmoves THEN player.pos.x + dx ELSE player.pos.x
                  ymoves == CandidateFree(x1, player.pos.y + dy)
                  y1 == IF ymoves THEN player.pos.y + dy ELSE player.pos.y
              IN  /\ player'.pos = [x |-> x1, y |-> y1]
                  /\ player'.rect = Rect(PyRound(x1), PyRound(y1), TILE_SIZE, TILE_SIZE)
                  /\ (log'[i].res = "moved") <=> (xmoves \/ ymoves)
                  /\ (log'[i].res = "stuck") <=> (player'.pos = player.pos) ]_vars

\* a diagonal step into the corner has moved the player along one axis only:
\* down along the wall on its left, or right along the wall above it
C25_SlidAlongWall ==
    \E i \in Calls("_try_axis_move") :
        /\ log[i].id # 0 /\ log[i].owner # 0 /\ log[i].res = "moved"
        /\ \/ log[i].after.x = log[i].before.x /\ log[i].after.y = log[i].before.y + log[i].owner
           \/ log[i].after.y = log[i].before.y /\ log[i].after.x = log[i].before.x + log[i].id
        /\ ~CandidateFree(log[i].before.x + log[i].id, log[i].before.y + log[i].owner)

----------------------------------------------------------------------------
\* ==== a wall in the line of fire ====
\* The end of stage 1, one enemy left.  The player stands in row 12 facing
\* right; three cells on, the brick (6, 12) of the one-tile-wide wall of
\* column 6 is in its line of fire; the enemy drives away behind the wall
\* along the same row, not about to turn or fire.
BreachFrames == 9

BreachWall == <<6, 12>>

BreachScene ==
    [InPlay EXCEPT
        !.player = PlayerAt(@, TILE_SIZE * 3, TILE_SIZE * 12, "RIGHT", PLAYER_LIVES),
        !.enemies = << EnemyAt(16, TILE_SIZE * 8, TILE_SIZE * 12, "basic", "RIGHT",
                               ENEMY_DIRECTION_DELAY[2], ENEMY_FIRE_DELAY[2]) >>,
        !.remaining_enemies = 0,
        !.score = 15 * SCORE_VALUES("basic")]

BreachTimes == {Sec \div 8}
BreachKeys == {{}, {"SPACE"}}

InitBreach == InitGame(BreachScene)

UpdateBreach == UpdateWith(BreachTimes, BreachKeys, AllDraws, BreachFrames)

NextBreach == HandleEvents \/ UpdateBreach

SpecBreach == InitBreach /\ [][NextBreach]_vars

\* the bullets a handler's log reports as stopped by a brick
BrickHits(lg) == {i \in DOMAIN lg : lg[i].op = "handle_bullet_collision" /\ lg[i].res = "brick"}

\* the cells of the tiles of lv that stop a bullet
Stopping(lv) ==
    {c \in LEVEL_CELLS : c \notin lv.popped /\ TILE_DEFINITIONS[TileTypeAt(lv, c)].bullet_block}

\* C26: a hit on a destructible wall tile removes that tile at once - one
\* tile per hit - and consumes the bullet; a bullet left in flight is over no
\* tile that stops bullets, so a later bullet on the same line flies on
\* through the emptied cell (and can reach the enemy behind it).
C26_WallFallsToOneHit ==
    [][ (\A i \in DOMAIN log' : log'[i].op # "handle_events") =>
          /\ \A i \in BrickHits(log') :
                /\ log'[i].id \notin Ids(bullets')
                /\ \E j \in DOMAIN log' :
                      /\ log'[j].op = "remove_bullet" /\ log'[j].res = "tile"
                      /\ log'[j].id = log'[i].id
          /\ Cardinality(level'.popped \ level.popped) = Cardinality(BrickHits(log'))
          /\ level.popped \subseteq level'.popped
          /\ \A i \in DOMAIN bullets', c \in Stopping(level') :
                ~colliderect(bullets'[i].rect,
                             Rect(c[1] * TILE_SIZE, c[2] * TILE_SIZE, TILE_SIZE, TILE_SIZE)) ]_vars

\* the wall tile is gone and a later bullet of the player, fired along the
\* same row, has destroyed the enemy behind it
C26_ShotThroughTheGap ==
    /\ BreachWall \in level.popped
    /\ BrickHits(log) = {}
    /\ \E i \in Calls("take_damage") : log[i].id = 16 /\ log[i].res = "destroyed"
    /\ enemies = << >> /\ score = 16 * SCORE_VALUES("basic")

----------------------------------------------------------------------------
\* ==== bullets over invulnerable tanks ====
\* The end of stage 1 in row 1, all three tanks facing right.  The last enemy
\* has just come out at the middle spawn cell and drives away, some of its
\* spawn invulnerability left; the player, three cells behind it, is still
\* invulnerable for a while; the other enemy, three cells behind the player,
\* is about to fire at it.
ShieldFrames == 5
ShieldDt == Sec \div 16

ShieldScene(player_left, enemy_left) ==
    [InPlay EXCEPT
        !.player = [PlayerAt(@, TILE_SIZE * 9, TILE_SIZE, "RIGHT", PLAYER_LIVES)
                        EXCEPT !.invulnerable_timer = player_left],
        !.enemies = << EnemyAt(15, TILE_SIZE * 6, TILE_SIZE, "basic", "RIGHT",
                               ENEMY_DIRECTION_DELAY[2], Sec \div 32),
                       [EnemyAt(16, TILE_SIZE * 12, TILE_SIZE, "basic", "RIGHT",
                                ENEMY_DIRECTION_DELAY[2], ENEMY_FIRE_DELAY[2])
                            EXCEPT !.invulnerable_timer = enemy_left] >>,
        !.remaining_enemies = 0,
        !.score = 14 * SCORE_VALUES("basic")]

ShieldTimes == {ShieldDt}
ShieldKeys == {{}, {"SPACE"}}

InitShield ==
    \E player_left \in {2 * ShieldDt, 8 * ShieldDt}, enemy_left \in {3 * ShieldDt, 8 * ShieldDt} :
        InitGame(ShieldScene(player_left, enemy_left))

UpdateShield == UpdateWith(ShieldTimes, ShieldKeys, AllDraws, ShieldFrames)

NextShield == HandleEvents \/ UpdateShield

SpecShield == InitShield /\ [][NextShield]_vars

\* the hits on tanks a handler's log reports
TankHits(lg) ==
    {i \in DOMAIN lg : \/ lg[i].op = "take_damage"
                       \/ lg[i].op = "on_player_hit" /\ lg[i].res # "ignored"}

\* C27: in a frame, an enemy whose invulnerable_timer outlasts the frame is
\* not damaged and stays in play, a player that is inactive or whose
\* invulnerable_timer outlasts the frame is not hit, and a bullet is removed
\* for a tank only together with a hit on a tank; so an enemy still
\* invulnerable has the health it was spawned with.
C27_ShieldedTanksUntouched ==
    [][ (\A i \in DOMAIN log' : log'[i].op # "handle_events") =>
          /\ \A i \in DOMAIN enemies :
                enemies[i].invulnerable_timer > ShieldDt =>
                    /\ \A k \in DOMAIN log' :
                          ~(log'[k].op = "take_damage" /\ log'[k].id = enemies[i].id)
                    /\ \E j \in DOMAIN enemies' :
                          /\ enemies'[j].id = enemies[i].id
                          /\ enemies'[j].health = enemies[i].health
          /\ (player.invulnerable_timer > ShieldDt \/ ~player.active) =>
                /\ \A k \in DOMAIN log' : log'[k].op # "on_player_hit"
                /\ player'.lives >= player.lives
          /\ Cardinality({k \in DOMAIN log' : log'[k].op = "remove_bullet" /\ log'[k].res = "tank"})
                = Cardinality(TankHits(log'))
          /\ \A j \in DOMAIN enemies' :
                enemies'[j].invulnerable_timer > 0 =>
                    enemies'[j].health = (IF enemies'[j].variant = "heavy" THEN 2 ELSE 1) ]_vars

\* the player's bullet is over the invulnerable new enemy and the other
\* enemy's bullet is over the invulnerable player: both bullets fly on, no
\* tank was hit
C27_BulletsFlyOn ==
    /\ \E i \in DOMAIN bullets, j \in DOMAIN enemies :
          /\ bullets[i].friendly /\ colliderect(bullets[i].rect, enemies[j].rect)
          /\ enemies[j].invulnerable_timer > 0 /\ enemies[j].health = 1
    /\ \E i \in DOMAIN bullets :
          /\ ~bullets[i].friendly /\ colliderect(bullets[i].rect, player.rect)
          /\ player.invulnerable_timer > 0 /\ player.lives = PLAYER_LIVES
    /\ TankHits(log) = {}

----------------------------------------------------------------------------
\* ==== keys held while the player is dead ====
\* Stage 1 before the first enemy is out.  The player was shot in the open
\* row above the fortress, facing right, with a life left; its respawn
\* countdown has one to three frames to run.  Keys are held all the while.
WakeFrames == 4
WakeDt == Sec \div 16

WakeScene(timer) ==
    [InPlay EXCEPT
        !.player = [start_respawn(PlayerAt(@, TILE_SIZE * 5, TILE_SIZE * 21, "RIGHT", PLAYER_LIVES - 1))
                        EXCEPT !.respawn_timer = timer],
        !.enemy_spawn_timer = Sec]

WakeTimes == {WakeDt}
WakeKeys == {{}, {"SPACE"}, {"DOWN"}, {"LEFT", "SPACE"}}

InitWake == \E n \in 1 .. 3 : InitGame(WakeScene(n * WakeDt))

UpdateWake == UpdateWith(WakeTimes, WakeKeys, AllDraws, WakeFrames)

NextWake == HandleEvents \/ UpdateWake

SpecWake == InitWake /\ [][NextWake]_vars

\* the friendly bullets of a pool
FriendlyIds(bs) == {bs[i].id : i \in {k \in DOMAIN bs : bs[k].friendly}}

\* C28: a frame that finds the player dead applies no input: no friendly
\* bullet is created in it, and while the player stays dead its position,
\* rectangle and facing do not change; the frame that completes the respawn
\* puts it at its spawn point facing up, whatever keys are held.
C28_DeadPlayerIgnoresInput ==
    [][ (frame' = frame + 1 /\ state = "playing" /\ player.dead) =>
          /\ FriendlyIds(bullets') \subseteq FriendlyIds(bullets)
          /\ \A k \in DOMAIN log' : ~(log'[k].op = "fire" /\ log'[k].owner = PLAYER_ID)
          /\ player'.active_bullets <= player.active_bullets
          /\ player'.dead =>
                /\ player'.pos = player.pos
                /\ player'.rect = player.rect
                /\ player'.direction = player.direction
          /\ ~player'.dead =>
                /\ player'.rect = Rect(PLAYER_SPAWN.x, PLAYER_SPAWN.y, TILE_SIZE, TILE_SIZE)
                /\ player'.direction = "UP" ]_vars

\* two frames have passed with the player dead where it was shot, facing as
\* it did, and no bullet in the pool
C28_StillWhereItFell ==
    /\ frame = 2 /\ player.dead /\ ~player.active
    /\ player.rect = Rect(TILE_SIZE * 5, TILE_SIZE * 21, TILE_SIZE, TILE_SIZE)
    /\ player.direction = "RIGHT" /\ bullets = << >>

----------------------------------------------------------------------------
\* ==== an enemy against a wall ====
\* Stage 1, the first enemy out.  It stands on the middle spawn cell facing
\* down, the water of row 2 right under it; its change_dir_timer is about to
\* run out, or has long to run.  The player waits at its spawn point.
DeadEndFrames == 3
DeadEndDt == Sec \div 16

DeadEndScene(change_dir) ==
    [InPlay EXCEPT
        !.enemies = << EnemyAt(1, TILE_SIZE * 12, TILE_SIZE, "basic", "DOWN",
                               change_dir, ENEMY_FIRE_DELAY[2]) >>,
        !.remaining_enemies = @ - 1,
        !.enemy_spawn_timer = (15 * Sec) \div 10]

DeadEndTimes == {DeadEndDt}
DeadEndKeys == {{}, {"SPACE"}}

InitDeadEnd ==
    \E change_dir \in {DeadEndDt, ENEMY_DIRECTION_DELAY[2]} : InitGame(DeadEndScene(change_dir))

UpdateDeadEnd == UpdateWith(DeadEndTimes, DeadEndKeys, AllDraws, DeadEndFrames)

NextDeadEnd == HandleEvents \/ UpdateDeadEnd

SpecDeadEnd == InitDeadEnd /\ [][NextDeadEnd]_vars

\* the position of the tank e after a step of DeadEndDt in its direction
StepAhead(e) ==
    [x |-> e.pos.x + vector(e.direction).x * Travel(e.speed, DeadEndDt),
     y |-> e.pos.y + vector(e.direction).y * Travel(e.speed, DeadEndDt)]

\* the step ahead of e is blocked by the level or by the player
WayBlocked(e) ==
    LET r == Rect(PyRound(StepAhead(e).x), PyRound(StepAhead(e).y), TILE_SIZE, TILE_SIZE)
    IN  \/ is_rect_blocked(level, r)
        \/ player.active /\ colliderect(r, player.rect)

\* C29: in a frame of update_ai, an enemy whose move in its current
\* direction fails entirely keeps its position, has a direction drawn anew
\* and its change_dir_timer re-armed from [0.4, 1.0]; an enemy that moved has
\* its timer counted down, or re-armed from [1.4, 3.0] when it ran out.
C29_RetryAfterFailedMove ==
    [][ (frame' = frame + 1 /\ state = "playing") =>
          \A i \in DOMAIN enemies : \A j \in DOMAIN enemies' :
              enemies'[j].id = enemies[i].id =>
                  LET e == enemies[i]
                      f == enemies'[j]
                      retry == (4 * Sec) \div 10 <= f.change_dir_timer /\ f.change_dir_timer <= Sec
                      normal == (14 * Sec) \div 10 <= f.change_dir_timer /\ f.change_dir_timer <= 3 * Sec
                  IN  /\ (e.change_dir_timer > DeadEndDt /\ WayBlocked(e)) =>
                            /\ f.pos = e.pos /\ f.rect = e.rect
                            /\ f.direction \in Direction
                            /\ retry
                      /\ (e.change_dir_timer > DeadEndDt /\ ~WayBlocked(e)) =>
                            /\ f.pos = StepAhead(e) /\ f.direction = e.direction
                            /\ f.change_dir_timer = e.change_dir_timer - DeadEndDt
                      /\ (e.change_dir_timer <= DeadEndDt) =>
                            IF f.pos = e.pos THEN retry ELSE normal ]_vars

\* the enemy has failed to move down into the water: it is where it was,
\* faces another way and has 0.4 s to its next turn
C29_TurnedAtTheWater ==
    /\ frame = 1 /\ enemies # << >>
    /\ enemies[1].rect = Rect(TILE_SIZE * 12, TILE_SIZE, TILE_SIZE, TILE_SIZE)
    /\ enemies[1].direction = "LEFT"
    /\ enemies[1].change_dir_timer = (4 * Sec) \div 10

----------------------------------------------------------------------------
\* ==== the spawner's pace ====
\* Stage 1 some time in, the spawn timer about to run out.  Two enemies
\* stand on the outer spawn cells and drive off them downwards; the player
\* stands on the middle one.  Either these are all the tanks, or two more
\* enemies drive along the open row above the fortress, which makes four.
\* Every pass of Game.run calls update, so frames keep coming.
PacingFrames == 4
PacingDt == Sec \div 4

PacingScene(extra) ==
    [InPlay EXCEPT
        !.player = PlayerAt(@, SPAWN_POINTS[2].x, SPAWN_POINTS[2].y, "UP", PLAYER_LIVES),
        !.enemies = << EnemyAt(1, SPAWN_POINTS[1].x, SPAWN_POINTS[1].y, "basic", "DOWN",
                               ENEMY_DIRECTION_DELAY[2], ENEMY_FIRE_DELAY[2]),
                       EnemyAt(2, SPAWN_POINTS[3].x, SPAWN_POINTS[3].y, "basic", "DOWN",
                               ENEMY_DIRECTION_DELAY[2], ENEMY_FIRE_DELAY[2]) >>
                    \o [k \in 1 .. extra |->
                           EnemyAt(2 + k, TILE_SIZE * 4 * (k - 1), TILE_SIZE * 21, "basic", "RIGHT",
                                   ENEMY_DIRECTION_DELAY[2], ENEMY_FIRE_DELAY[2])],
        !.remaining_enemies = @ - (2 + extra),
        !.enemy_spawn_timer = PacingDt]

PacingTimes == {PacingDt}
PacingKeys == {{}, {"LEFT"}}

InitPacing == \E extra \in {0, 2} : InitGame(PacingScene(extra))

UpdatePacing == UpdateWith(PacingTimes, PacingKeys, AllDraws, PacingFrames)

NextPacing == HandleEvents \/ UpdatePacing

SpecPacing == InitPacing /\ [][NextPacing]_vars

\* a step of UpdatePacing is a step that advances frame, and one is possible
\* as long as frame is below PacingFrames
PacingFrame == frame < PacingFrames /\ frame' = frame + 1

\* the same with the loop of Game.run going on: update is called again and
\* again
SpecPacingLive == SpecPacing /\ WF_frame(PacingFrame)

\* the spawn attempts a handler's log reports
Attempts(lg) == {i \in DOMAIN lg : lg[i].op = "spawn_enemy"}

\* C30 (each frame): while playing with remaining_enemies > 0, a frame in
\* which enemy_spawn_timer runs out makes exactly one spawn attempt and
\* leaves the timer at 1.5 after a spawn and at 0.5 after a failed attempt;
\* a failed attempt found four enemies live or every cell taken; any other
\* frame makes no attempt and counts the timer down.
C30_EachExpiry ==
    [][ (frame' = frame + 1 /\ state = "playing" /\ remaining_enemies > 0) =>
          IF enemy_spawn_timer - PacingDt <= 0
          THEN /\ Cardinality(Attempts(log')) = 1
               /\ \A i \in Attempts(log') :
                     IF log'[i].res = "spawned"
                     THEN /\ enemy_spawn_timer' = (15 * Sec) \div 10
                          /\ remaining_enemies' = remaining_enemies - 1
                          /\ Len(enemies') <= 4
                     ELSE /\ enemy_spawn_timer' = (5 * Sec) \div 10
                          /\ remaining_enemies' = remaining_enemies
                          /\ Len(enemies') >= 4 \/ AllCellsTaken(GameRec')
          ELSE /\ Attempts(log') = {}
               /\ enemy_spawn_timer' = enemy_spawn_timer - PacingDt
               /\ remaining_enemies' = remaining_enemies ]_vars

\* C30 (in the long run): a failed attempt is followed by another attempt
\* while the game is in play, and an attempt that failed for the cells being
\* taken, with fewer than four enemies live, is followed by a spawn once the
\* tanks have driven off the cells.
C30_FailedAttemptRetried ==
    \A k \in 1 .. PacingFrames - 2 :
        /\ (frame = k /\ \E i \in Attempts(log) : log[i].res # "spawned")
              ~> (state # "playing" \/ (frame > k /\ Attempts(log) # {}))
        /\ (frame = k /\ \E i \in Attempts(log) : log[i].res = "blocked")
              ~> (state # "playing" \/ (frame > k /\ \E i \in Attempts(log) : log[i].res = "spawned"))

\* C30: each expiry of enemy_spawn_timer makes one spawn attempt and re-arms
\* the timer to 1.5 after a spawn and to 0.5 after a failure, so a failed
\* attempt is retried and a free cell with fewer than 4 live enemies
\* eventually yields a spawn.
C30_SpawnPacing == C30_EachExpiry /\ C30_FailedAttemptRetried

\* the attempt of frame 1 failed with every cell taken, and the retry, half a
\* second later, has put an enemy on a cell the others had left
C30_RetrySpawned ==
    /\ frame = 3 /\ Len(enemies) = 3
    /\ \E i \in Attempts(log) : log[i].res = "spawned"
    /\ enemy_spawn_timer = (15 * Sec) \div 10
    /\ player.rect = Rect(SPAWN_POINTS[2].x, SPAWN_POINTS[2].y, TILE_SIZE, TILE_SIZE)

----------------------------------------------------------------------------
\* ==== bullets in the pool and the owners' counts ====
\* The scene of the respawn with the second enemy holding its fire: the
\* player's bullet of frame 1 is still flying along row 21 when the player
\* comes back.
ReloadFrames == 105

ReloadScene == [RespawnScene EXCEPT !.enemies[2].fire_timer = 3 * Sec]

InitReload == InitGame(ReloadScene)

UpdateReload == UpdateWith(RespawnTimes, RespawnKeys, AllDraws, ReloadFrames)

NextReload == HandleEvents \/ UpdateReload

SpecReload == InitReload /\ [][NextReload]_vars

\* the bullets of the pool a tank owns
Owned(owner) == Cardinality({i \in DOMAIN bullets : bullets[i].owner = owner})

\* C31: for every tank, the bullets of the live pool it owns are as many as
\* its active_bullets and never more than its max_bullets, in every state of
\* a stage, also after the player died and respawned with a bullet of its
\* own still in flight.
C31_PoolMatchesCount ==
    /\ Owned(PLAYER_ID) = player.active_bullets
    /\ Owned(PLAYER_ID) <= player.max_bullets
    /\ \A i \in DOMAIN enemies :
          /\ Owned(enemies[i].id) = enemies[i].active_bullets
          /\ Owned(enemies[i].id) <= enemies[i].max_bullets
    /\ \A i \in DOMAIN detached :
          /\ Owned(detached[i].id) = detached[i].active_bullets
          /\ Owned(detached[i].id) <= detached[i].max_bullets

----------------------------------------------------------------------------
\* ==== tanks keep apart ====
\* Stage 1 in four situations.  The program just started, the menu up.  The
\* player destroyed and about to come back, an enemy driving RIGHT along row
\* 23 either just short of the player's spawn cell or already on it.  The
\* spawn timer about to run out with enemies on two or three of the spawn
\* cells, the first heading for the top edge, the second (or the player in
\* its place) above the water.
TrafficFrames == 5
TrafficDt == Sec \div 16

ThawScene(ex) ==
    [InPlay EXCEPT
        !.player = [start_respawn(PlayerAt(@, 0, TILE_SIZE * 21, "RIGHT", PLAYER_LIVES - 1))
                       EXCEPT !.respawn_timer = TrafficDt],
        !.enemies = << EnemyAt(1, ex, PLAYER_SPAWN.y, "basic", "RIGHT",
                               ENEMY_DIRECTION_DELAY[2], ENEMY_FIRE_DELAY[2]) >>,
        !.remaining_enemies = @ - 1,
        !.enemy_spawn_timer = (15 * Sec) \div 10]

RushScene(occ, mid) ==
    [SpawnScene(occ, mid) EXCEPT !.enemies[1].direction = "UP"]

TrafficDraws ==
    [AllDraws EXCEPT !.dir_delay = {ENEMY_DIRECTION_DELAY[2]},
                     !.retry_delay = {ENEMY_RETRY_DELAY[2]},
                     !.fire_delay = {ENEMY_FIRE_DELAY[2]}]

TrafficTimes == {TrafficDt}
TrafficKeys == {{}, {"LEFT"}, {"UP"}}

InitTraffic ==
    \/ InitGame(NewGame)
    \/ \E ex \in {PLAYER_SPAWN.x - TILE_SIZE - 2, PLAYER_SPAWN.x - TILE_SIZE + 6} :
          InitGame(ThawScene(ex))
    \/ \E occ \in {{1, 2}, {1, 2, 3}}, mid \in {"enemy", "player"} :
          InitGame(RushScene(occ, mid))

UpdateTraffic == UpdateWith(TrafficTimes, TrafficKeys, TrafficDraws, TrafficFrames)

NextTraffic == HandleEvents \/ UpdateTraffic

SpecTraffic == InitTraffic /\ [][NextTraffic]_vars

\* the rectangles of the tanks on the field
OnField ==
    {enemies[i].rect : i \in DOMAIN enemies} \cup (IF player.active THEN {player.rect} ELSE {})

\* C32: while playing, no two tanks on the field (live enemies, the active
\* player) overlap, and none lies outside the play area or on a tile that
\* is not passable; also right after a spawn, a respawn and a stage start.
C32_TanksApart ==
    state = "playing" =>
        /\ \A i, j \in DOMAIN enemies : i # j => ~colliderect(enemies[i].rect, enemies[j].rect)
        /\ player.active => \A i \in DOMAIN enemies : ~colliderect(player.rect, enemies[i].rect)
        /\ \A r \in OnField :
              /\ r.x >= 0 /\ r.y >= 0
              /\ r.x + r.w <= PLAY_AREA_WIDTH /\ r.y + r.h <= PLAY_AREA_HEIGHT
              /\ ~is_rect_blocked(level, r)

\* the player is back on its spawn cell and the enemy, which drove up while
\* it was away, stands less than a step from it and has not got through
C32_BumperToBumper ==
    /\ state = "playing" /\ frame = TrafficFrames /\ player.active
    /\ player.rect = Rect(PLAYER_SPAWN.x, PLAYER_SPAWN.y, TILE_SIZE, TILE_SIZE)
    /\ \E i \in DOMAIN enemies :
          /\ enemies[i].rect.y = player.rect.y
          /\ enemies[i].rect.x + enemies[i].rect.w <= player.rect.x
          /\ enemies[i].pos.x + Travel(enemies[i].speed, TrafficDt)
                > (player.rect.x - enemies[i].rect.w) * Px

----------------------------------------------------------------------------
\* ==== the count of enemies ====
\* Stage 1 with one basic enemy out, two cells ahead of the player in the
\* open row 21, and the spawn timer running out in frame 2; either the stage
\* has just begun or the enemy still to come is the last.  Or the program
\* has just started.
TallyFrames == 4

TallyScene(left) ==
    [InPlay EXCEPT
        !.player = PlayerAt(@, TILE_SIZE * 5, TILE_SIZE * 21, "RIGHT", PLAYER_LIVES),
        !.enemies = << EnemyAt(1, TILE_SIZE * 7, TILE_SIZE * 21, "basic", "RIGHT",
                               ENEMY_DIRECTION_DELAY[2], ENEMY_FIRE_DELAY[2]) >>,
        !.remaining_enemies = left,
        !.score = (@ + ENEMY_BASE_COUNT - 1 - left) * SCORE_VALUES("basic"),
        !.enemy_spawn_timer = Sec \div 8]

TallyTimes == {Sec \div 16}
TallyKeys == {{}, {"SPACE"}}

InitTally == InitGame(NewGame) \/ \E left \in {1, ENEMY_BASE_COUNT - 1} : InitGame(TallyScene(left))

UpdateTally == UpdateWith(TallyTimes, TallyKeys, AllDraws, TallyFrames)

NextTally == HandleEvents \/ UpdateTally

SpecTally == InitTally /\ [][NextTally]_vars

\* the enemies a handler's log reports destroyed
Destroyed(lg) == {i \in DOMAIN lg : lg[i].op = "take_damage" /\ lg[i].res = "destroyed"}

\* C33: remaining_enemies is never negative; prepare_stage seeds it and
\* empties the list of live enemies, and from then on every step keeps
\* remaining_enemies + live enemies + enemies destroyed at the seeded total;
\* an enemy leaves the list only destroyed by a friendly bullet.
C33_EnemiesAccounted ==
    [][ /\ remaining_enemies' >= 0
        /\ IF Confirmed /\ state # "playing" /\ state' = "playing"
           THEN /\ remaining_enemies' = Min(ENEMY_BASE_COUNT + (stage' - 1) * ENEMY_PER_STAGE,
                                            MAX_TOTAL_ENEMIES)
                /\ enemies' = << >>
           ELSE /\ remaining_enemies' + Len(enemies') + Cardinality(Destroyed(log'))
                     = remaining_enemies + Len(enemies)
                /\ \A i \in DOMAIN enemies :
                      (\A j \in DOMAIN enemies' : enemies'[j].id # enemies[i].id) =>
                          \E k \in Destroyed(log') :
                              /\ log'[k].id = enemies[i].id
                              /\ \E m \in DOMAIN log' :
                                    /\ m > k /\ log'[m].op = "remove_bullet"
                                    /\ log'[m].owner = PLAYER_ID /\ log'[m].res = "tank" ]_vars

\* the frame in which the player's bullet destroyed the enemy ahead is also
\* the one in which the last enemy of the stage came out
C33_OneOutOneIn ==
    /\ state = "playing" /\ remaining_enemies = 0 /\ Len(enemies) = 1
    /\ Destroyed(log) # {}
    /\ \E i \in Calls("spawn_enemy") : log[i].res = "spawned" /\ enemies[1].id = log[i].id

----------------------------------------------------------------------------
\* ==== the player under crossfire ====
\* Stage 1 some time in: the player in the open row 21 with one or two lives
\* and no shield, an enemy a cell away on either side facing it, both about
\* to fire.  Their bullets reach the player in the same frame.
CrossfireFrames == 4

CrossfireScene(lives) ==
    [InPlay EXCEPT
        !.player = PlayerAt(@, TILE_SIZE * 5, TILE_SIZE * 21, "UP", lives),
        !.enemies = << EnemyAt(1, TILE_SIZE * 3, TILE_SIZE * 21, "basic", "RIGHT",
                               ENEMY_DIRECTION_DELAY[2], Sec \div 32),
                       EnemyAt(2, TILE_SIZE * 7, TILE_SIZE * 21, "basic", "LEFT",
                               ENEMY_DIRECTION_DELAY[2], Sec \div 32) >>,
        !.remaining_enemies = @ - 2,
        !.enemy_spawn_timer = (15 * Sec) \div 10]

CrossfireTimes == {Sec \div 16}
CrossfireKeys == {{}, {"SPACE"}}

InitCrossfire == \E lives \in 1 .. 2 : InitGame(CrossfireScene(lives))

UpdateCrossfire == UpdateWith(CrossfireTimes, CrossfireKeys, AllDraws, CrossfireFrames)

NextCrossfire == HandleEvents \/ UpdateCrossfire

SpecCrossfire == InitCrossfire /\ [][NextCrossfire]_vars

\* C34: player.lives is never negative, also when several enemy bullets
\* overlap the player in the frame in which the last life is lost.
C34_LivesNeverNegative == player.lives >= 0

\* the frame that took the last life: both bullets were removed for hitting
\* the player and on_player_hit ran for each
C34_TwoHitsOneLife ==
    /\ state = "game_over" /\ player.lives = 0
    /\ Cardinality({i \in Calls("on_player_hit") : log[i].res = "game_over"}) = 2
    /\ Cardinality({i \in Calls("remove_bullet") : log[i].res = "tank" /\ log[i].owner # PLAYER_ID}) = 2

----------------------------------------------------------------------------
\* ==== frames outside play ====
\* C35: when the state is not "playing" (menu, game_over, victory) a call of
\* update leaves the level, the player, the enemies, the bullets, the
\* bonuses, remaining_enemies, the spawn timer, the score, the stage and the
\* state as they were.
C35_IdleFrame ==
    [][ (frame' = frame + 1 /\ state # "playing") =>
            UNCHANGED <<state, stage, score, level, player, enemies, bullets, bonuses,
                        remaining_enemies, enemy_spawn_timer, game_over_reason, detached>> ]_vars

\* a frame has passed after the end of the stage with a bullet still in the
\* pool
C35_FrozenBullet ==
    /\ state \in {"game_over", "victory"} /\ frame >= 2 /\ log = << >>
    /\ bullets # << >>

----------------------------------------------------------------------------
\* ==== a tank in the lee of a brick ====
\* Stage 1 some time in.  Either a heavy enemy stands under the brick of
\* cell (2,20), shielded for two more frames, and the player is below it
\* facing UP; or the player stands there, shielded for two more frames, and
\* a fast enemy below it is about to fire UP.  A bullet fired in frame 1
\* overlaps the shielded tank at the end of that frame and, in frame 2, the
\* brick and the tank together.
CoverFrames == 3
CoverDt == Sec \div 16
CoverBrick == <<2, 20>>

CoverScene(kind) ==
    LET x == TILE_SIZE * CoverBrick[1]
        y == TILE_SIZE * (CoverBrick[2] + 1)
    IN  IF kind = "enemy"
        THEN [InPlay EXCEPT
                 !.player = [PlayerAt(@, x, y + 46, "UP", PLAYER_LIVES)
                                EXCEPT !.pos.y = (y + 46) * Px + Px \div 2],
                 !.enemies = << [EnemyAt(1, x, y, "heavy", "UP", ENEMY_DIRECTION_DELAY[2],
                                         ENEMY_FIRE_DELAY[2])
                                    EXCEPT !.invulnerable_timer = 2 * CoverDt] >>,
                 !.remaining_enemies = @ - 1,
                 !.enemy_spawn_timer = (15 * Sec) \div 10]
        ELSE [InPlay EXCEPT
                 !.player = [PlayerAt(@, x, y, "UP", PLAYER_LIVES)
                                EXCEPT !.invulnerable_timer = 2 * CoverDt],
                 !.enemies = << EnemyAt(1, x, y + 50, "fast", "UP", ENEMY_DIRECTION_DELAY[2],
                                        Sec \div 32) >>,
                 !.remaining_enemies = @ - 1,
                 !.enemy_spawn_timer = (15 * Sec) \div 10]

CoverTimes == {CoverDt}
CoverKeys == {{}, {"SPACE"}}

InitCover == \E kind \in {"enemy", "player"} : InitGame(CoverScene(kind))

UpdateCover == UpdateWith(CoverTimes, CoverKeys, AllDraws, CoverFrames)

NextCover == HandleEvents \/ UpdateCover

SpecCover == InitCover /\ [][NextCover]_vars

\* the rectangle the first bullet of the pool has after its advance
Advanced == BulletUpdate(bullets[1], CoverDt).rect

\* whether that rectangle meets a tile that stops bullets
MeetsTile == handle_bullet_collision(level, Advanced).ret # "none"

\* C36: a bullet whose advanced rectangle overlaps both a tile that stops
\* bullets and a vulnerable tank of the other side is removed for the tile,
\* and the tank takes no damage from it (checked for the first bullet of
\* the pool, which meets the level and the tanks as the frame found them).
C36_TileBeforeTank ==
    [][ (frame' = frame + 1 /\ state = "playing" /\ bullets # << >> /\ MeetsTile) =>
          /\ (/\ bullets[1].friendly
              /\ \E j \in DOMAIN enemies' : /\ enemies'[j].invulnerable_timer <= 0
                                             /\ colliderect(Advanced, enemies'[j].rect))
                => /\ \E k \in Calls("remove_bullet")' :
                         log'[k].id = bullets[1].id /\ log'[k].res = "tile"
                   /\ \A i \in DOMAIN enemies : \E j \in DOMAIN enemies' :
                         enemies'[j].id = enemies[i].id /\ enemies'[j].health = enemies[i].health
                   /\ score' = score
          /\ (/\ ~bullets[1].friendly
              /\ player.active /\ player.invulnerable_timer - CoverDt <= 0
              /\ colliderect(Advanced, player'.rect))
                => /\ \E k \in Calls("remove_bullet")' :
                         log'[k].id = bullets[1].id /\ log'[k].res = "tile"
                   /\ player'.lives = player.lives /\ player'.active
                   /\ state' = "playing" ]_vars

\* the brick is gone, taken by a bullet, and the heavy enemy that stood under
\* it with its shield just run out has its health whole
C36_BrickTookIt ==
    /\ frame = 2 /\ CoverBrick \in level.popped
    /\ \E k \in Calls("remove_bullet") : log[k].res = "tile" /\ log[k].owner = PLAYER_ID
    /\ Len(enemies) = 1 /\ enemies[1].variant = "heavy" /\ enemies[1].health = 2
    /\ enemies[1].invulnerable_timer = 0
    /\ enemies[1].rect = Rect(TILE_SIZE * CoverBrick[1], TILE_SIZE * (CoverBrick[2] + 1), TILE_SIZE, TILE_SIZE)

----------------------------------------------------------------------------
\* ==== the states of the game ====
\* the changes of Game.state the program makes
StateEdges ==
    { <<"menu", "playing">>, <<"playing", "game_over">>, <<"playing", "victory">>,
      <<"game_over", "playing">>, <<"victory", "playing">> }

\* C37: Game.state changes only from menu to playing, from playing to
\* game_over or victory, from game_over to playing with the stage back at 1
\* and from victory to playing with the stage one higher; the menu is never
\* entered again; game_over_reason is set exactly when the state is
\* game_over.
C37_StateEdges ==
    /\ [](state = "game_over" <=> game_over_reason # "none")
    /\ [][ /\ state' # state => <<state, state'>> \in StateEdges
           /\ (state = "game_over" /\ state' = "playing") => stage' = 1
           /\ (state = "victory" /\ state' = "playing") => stage' = stage + 1 ]_vars

\* a new game is on after a game lost in stage 2
C37_BackInPlay ==
    /\ state = "playing" /\ stage = 1 /\ game_over_reason = "none"
    /\ \E i \in DOMAIN log : log[i].op = "handle_events" /\ log[i].res = "game_over"

----------------------------------------------------------------------------
(***************************************************************************)
(* Office game (source lines 1-1258): Vanosik searches the rooms of the    *)
(* office for Pizdyuk and fights him where he finds him.                   *)
(*                                                                         *)
(* Where the two stand in a room is not kept.  What the program reads off  *)
(* the positions comes with each frame as an input: the door Vanosik       *)
(* stands in, whether his attack hitbox meets Pizdyuk, whether Pizdyuk is  *)
(* within the radius of the ult.  No note is picked up, no key event       *)
(* (skills, inventory, save, load) arrives, so damage_bonus stays 0 and    *)
(* the score, the experience and the toast are left out.                   *)
(***************************************************************************)
BASE_PIZDYUK_HP == 120
DAMAGE_PER_HIT_BASE == 12
RAGE_PER_HIT == 14
RAGE_MAX == 100
ULT_COOLDOWN == 5 * Sec
ULT_DAMAGE == 45
BOSS_HP_MULT == 22          \* tenths: 2.2
MOVE_DELAY == 42 * Sec
ATTACK_TIME == Sec \div 5   \* Vanosik.attack_time, 0.2 s
ATTACK_CD == (45 * Sec) \div 100    \* max(0.18, 0.45 - 0.05 * cd_bonus) with cd_bonus 0
SWORD_DAMAGE == 2           \* the item equipped by Game.reset

\* ROOMS: the rooms and the rooms each one has a door to
ROOMS ==
    [ Corridor       |-> <<"Kitchen", "Security", "DirectorOffice", "ServerRoom">>,
      Kitchen        |-> <<"Corridor", "TechStore", "MeetingRoom">>,
      TechStore      |-> <<"Kitchen", "ManagersOffice">>,
      Security       |-> <<"Corridor", "DeputyOffice1">>,
      ServerRoom     |-> <<"Corridor", "ItOffice", "DeputyOffice2">>,
      MeetingRoom    |-> <<"Kitchen", "DirectorOffice">>,
      DirectorOffice |-> <<"MeetingRoom", "Corridor">>,
      ManagersOffice |-> <<"TechStore", "DeputyOffice2">>,
      DeputyOffice1  |-> <<"Security", "ManagersOffice">>,
      DeputyOffice2  |-> <<"ServerRoom", "ManagersOffice">>,
      ItOffice       |-> <<"ServerRoom">> ]

\* RoomScene.make_default_doors: one door for each of the first four neighbours
Doors(name) == SubSeq(ROOMS[name], 1, Min(4, Len(ROOMS[name])))

\* Game.piz = None
NoPiz == [present |-> FALSE, hp |-> 0, hp_max |-> 0, is_boss |-> FALSE]

\* Pizdyuk.__init__
Pizdyuk(boss) ==
    LET hp_max == IF boss THEN (BASE_PIZDYUK_HP * BOSS_HP_MULT) \div 10 ELSE BASE_PIZDYUK_HP
    IN  [present |-> TRUE, hp |-> hp_max, hp_max |-> hp_max, is_boss |-> boss]

\* Vanosik.__init__
Vanosik ==
    [state |-> "idle", attack_cooldown |-> 0, attacking_t |-> 0, hit_registered |-> FALSE,
     damage_bonus |-> 0, bonus_damage |-> 0, rage |-> 0, ult_cd |-> 0]

\* Vanosik.attacking
attacking(p) == p.state = "attack" /\ p.attacking_t > 0

\* Vanosik.can_attack
can_attack(p) == p.attack_cooldown <= 0 /\ ~attacking(p)

\* Vanosik.start_attack
start_attack(p) ==
    [p EXCEPT !.state = "attack", !.attacking_t = ATTACK_TIME, !.attack_cooldown = ATTACK_CD,
              !.hit_registered = FALSE]

\* Vanosik.try_ult
try_ult(p) == p.rage >= RAGE_MAX /\ p.ult_cd <= 0

\* Vanosik.update
Vanosik_update(p, dt, keys) ==
    LET p1 == [p EXCEPT !.ult_cd = IF @ > 0 THEN Max(0, @ - dt) ELSE @]
        vx == (IF "D" \in keys THEN 1 ELSE 0) - (IF "A" \in keys THEN 1 ELSE 0)
        vy == (IF "S" \in keys THEN 1 ELSE 0) - (IF "W" \in keys THEN 1 ELSE 0)
        p2 == IF p1.state = "attack" THEN p1
              ELSE [p1 EXCEPT !.state = IF vx # 0 \/ vy # 0 THEN "walk" ELSE "idle"]
        p3 == [p2 EXCEPT !.attack_cooldown = IF @ > 0 THEN Max(0, @ - dt) ELSE @]
    IN  IF attacking(p3)
        THEN LET t == p3.attacking_t - dt
             IN  IF t <= 0 THEN [p3 EXCEPT !.attacking_t = t, !.state = "idle", !.hit_registered = FALSE]
                 ELSE [p3 EXCEPT !.attacking_t = t]
        ELSE p3

\* Game.reset, with the room random.choice returned
office_reset(room) ==
    [state |-> "explore", player |-> [Vanosik EXCEPT !.bonus_damage = SWORD_DAMAGE],
     current_room |-> "Corridor", piz_room |-> room, piz |-> NoPiz, piz_move_t |-> MOVE_DELAY,
     round |-> 1, ult |-> "none", error |-> "none", frame |-> 0]

\* Game.enter_room
enter_room(O, name) ==
    LET O1 == [O EXCEPT !.current_room = name]
    IN  IF name = O.piz_room
        THEN [O1 EXCEPT !.piz = Pizdyuk(O.round % 3 = 0), !.state = "combat"]
        ELSE O1

\* Game.change_piz_room: the rooms random.choice picks from
PizRoomChoices(O) == DOMAIN ROOMS \ {O.piz_room}

\* Game.change_piz_room, with the room random.choice returned
change_piz_room(O, room) == [O EXCEPT !.piz_room = room]

\* Game.update, the branch of state "explore"
Explore(O, dt, keys, door, room) ==
    LET O1 == [O EXCEPT !.player = Vanosik_update(@, dt, keys)]
        O2 == IF "E" \in keys /\ door \in DOMAIN Doors(O1.current_room)
              THEN enter_room(O1, Doors(O1.current_room)[door])
              ELSE O1
        t  == O2.piz_move_t - dt
    IN  IF t <= 0 THEN change_piz_room([O2 EXCEPT !.piz_move_t = MOVE_DELAY], room)
        ELSE [O2 EXCEPT !.piz_move_t = t]

\* Game.update, the branch of state "combat": the hit of the player
Strike(O, room) ==
    LET dmg == DAMAGE_PER_HIT_BASE + 2 * O.player.damage_bonus + O.player.bonus_damage
        O1  == [O EXCEPT !.piz.hp = Max(0, @ - dmg),
                         !.player.hit_registered = TRUE, !.player.attacking_t = 0,
                         !.player.state = "idle",
                         !.player.rage = Min(RAGE_MAX, @ + RAGE_PER_HIT)]
    IN  IF O1.piz.hp <= 0
        THEN [change_piz_room([O1 EXCEPT !.round = @ + 1, !.state = "explore", !.piz = NoPiz], room)
                EXCEPT !.piz_move_t = MOVE_DELAY]
        ELSE O1

\* Game.update, the branch of state "combat": the ult
Ult(O, near) ==
    IF try_ult(O.player)
    THEN LET O1 == [O EXCEPT !.player.rage = 0, !.player.ult_cd = ULT_COOLDOWN, !.ult = "fired"]
             dmg == ULT_DAMAGE + 3 * O.player.damage_bonus + O.player.bonus_damage
         IN  IF ~O1.piz.present THEN [O1 EXCEPT !.error = "AttributeError"]
             ELSE IF near THEN [O1 EXCEPT !.piz.hp = Max(0, @ - dmg)]
             ELSE O1
    ELSE O

\* Game.update, the branch of state "combat"
Combat(O, dt, keys, reach, near, room) ==
    LET O1 == [O EXCEPT !.player = Vanosik_update(@, dt, keys)]
        O2 == IF "SPACE" \in keys /\ can_attack(O1.player)
              THEN [O1 EXCEPT !.player = start_attack(@)] ELSE O1
        O3 == IF attacking(O2.player) /\ ~O2.player.hit_registered /\ reach
              THEN Strike(O2, room) ELSE O2
    IN  IF "SHIFT" \in keys THEN Ult(O3, near) ELSE O3

\* Game.update(dt, keys) of the office game.  An exception leaves update at
\* the statement that raised it.
office_update(O, dt, keys, door, reach, near, room) ==
    LET O0 == [O EXCEPT !.ult = "none", !.frame = @ + 1]
        O1 == IF O0.state = "explore" THEN Explore(O0, dt, keys, door, room)
              ELSE IF O0.state = "combat" THEN Combat(O0, dt, keys, reach, near, room)
              ELSE O0
    IN  IF O0.state = "dialogue" \/ O1.error # "none" THEN O1
        ELSE [O1 EXCEPT !.player.ult_cd = IF @ > 0 THEN Max(0, @ - dt) ELSE @]


\* ==== the search and the fight ====
OfficeFrames == 4       \* update() calls of the office game explored from each start
OfficeDt == (3 * Sec) \div 100      \* main: dt = min(0.03, now - last)
WalkFrames == 40        \* frames Vanosik takes from his start to a door of the corridor
OfficeKeys == {{}, {"W"}, {"E"}, {"W", "E"}, {"SPACE"}, {"SHIFT"}, {"SPACE", "SHIFT"}}

\* Pizdyuk is in the kitchen; Vanosik has walked to the first door of the
\* corridor, gone in, landed the given number of blows without touching
\* SHIFT and let the cooldown of the last one run out
FightScene(blows) ==
    [office_reset("Kitchen") EXCEPT
        !.current_room = "Kitchen", !.state = "combat",
        !.piz = [Pizdyuk(FALSE) EXCEPT !.hp = @ - blows * (DAMAGE_PER_HIT_BASE + SWORD_DAMAGE)],
        !.piz_move_t = MOVE_DELAY - WalkFrames * OfficeDt,
        !.player.rage = Min(RAGE_MAX, blows * RAGE_PER_HIT),
        !.player.hit_registered = blows > 0]

\* Vanosik has stood in the corridor until Pizdyuk is about to move on
WaitScene(room, left) ==
    [office_reset(room) EXCEPT !.piz_move_t = left * OfficeDt]

\* The program starts the office game first; the tank game's variables stay
\* as its constructor leaves them.
InitOffice ==
    /\ TanksAt(NewGame)
    /\ office \in {office_reset(room) : room \in DOMAIN ROOMS}
                  \cup {FightScene(blows) : blows \in {0, 7, 8}}
                  \cup {WaitScene(room, 2) : room \in {"Kitchen", "ItOffice"}}

UpdateOffice ==
    /\ office.error = "none"
    /\ office.frame < OfficeFrames
    /\ \E keys \in OfficeKeys, room \in PizRoomChoices(office) :
       \E door \in IF "E" \in keys THEN 0 .. 4 ELSE {0},
          reach \in IF office.state = "combat" THEN BOOLEAN ELSE {FALSE},
          near \in IF "SHIFT" \in keys THEN BOOLEAN ELSE {FALSE} :
          office' = office_update(office, OfficeDt, keys, door, reach, near, room)
    /\ UNCHANGED <<state, stage, score, level, player, enemies, bullets, bonuses,
                   remaining_enemies, enemy_spawn_timer, game_over_reason, detached,
                   frame, log>>

NextOffice == UpdateOffice
SpecOffice == InitOffice /\ [][NextOffice]_vars

\* C38: in the combat branch of the office game's update, whenever the ult
\* fires (rage at its maximum, the ult's cooldown over, SHIFT held) a Pizdyuk
\* is present, also in the frame in which a blow has just taken his hp to 0
\* and put the game back to explore.
C38_UltHasOpponent == office.ult = "fired" => office.piz.present

\* C39: whenever current_room equals piz_room the game is in combat with a
\* Pizdyuk present; neither the first placement nor the timed move leaves
\* him in the player's room with the state still explore.
C39_FoundMeansCombat ==
    office.current_room = office.piz_room => office.state = "combat" /\ office.piz.present


====
